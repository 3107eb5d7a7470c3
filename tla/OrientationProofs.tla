-------------------------- MODULE OrientationProofs --------------------------
(***************************************************************************)
(* Proofs about Orientation, and with it about the frame loop it is        *)
(* composed with.  The first half shows that every handler leaves a typed  *)
(* loop that will draw (Keeps), the second that lock, sensor, output and   *)
(* windows agree.                                                          *)
(*                                                                         *)
(* The inductive invariant adds to the properties that the last reported   *)
(* orientation is the one an unlock turns to (AccelKnown), and says for    *)
(* the display what PollingMatches says for the screen.                    *)
(***************************************************************************)
EXTENDS Orientation, TLAPS

\* A loop that is not frozen, for any loop state instead of the current one.
Draws(r) ==
    r.displayOn /\ r.device /\ (r.damage \/ ~r.stalled)
      => r.vblank \/ r.redraw # "none" \/ r.swapped

LoopInv == loop \in Loops /\ Draws(loop)

\* What a step that leaves the display alone makes of a loop.
Keeps(r, f) == f \in Loops /\ Draws(f) /\ f.displayOn = r.displayOn

LEMMA DrawsIsNeverFrozen == Draws(loop) <=> NeverFrozen
BY DEF Draws, NeverFrozen, Screen, Awake

LEMMA UpdatedLemma ==
    ASSUME NEW r \in Loops, NEW u \in Updated(r)
    PROVE  u \in Loops /\ u.displayOn = r.displayOn
<1>1. Fixes(r) \subseteq SUBSET Changes
  BY DEF Fixes, Changes
<1>2. CASE ~Applies(r)
  BY <1>2 DEF Updated
<1>3. CASE Applies(r)
  <2>1. PICK fix \in Fixes(r), ready \in BOOLEAN : u = Settled(r, fix, ready)
    BY <1>3 DEF Updated
  <2>2. UpdateDamages(r) \in BOOLEAN /\ fix \in SUBSET Changes
    BY <1>1 DEF Loops, UpdateDamages
  <2> QED
    BY <2>1, <2>2 DEF Loops, Settled
<1> QED
  BY <1>2, <1>3

\* Whatever a frame finds, it leaves the loop stalled or about to draw.
LEMMA DrawnLemma ==
    ASSUME NEW r \in Loops, NEW waits \in BOOLEAN, NEW f \in Drawn(r, waits)
    PROVE  Keeps(r, f)
<1>1. CASE ~r.damage
  BY <1>1 DEF Drawn, Keeps, Draws, Loops
<1>2. CASE r.damage
  BY <1>2 DEF Drawn, Keeps, Draws, Loops
<1> QED
  BY <1>1, <1>2

LEMMA FramesLemma ==
    ASSUME NEW r \in Loops, NEW f \in Frames(r)
    PROVE  Keeps(r, f)
<1>1. CASE ~r.displayOn
  BY <1>1 DEF Frames, Keeps, Draws, Loops
<1>2. CASE r.displayOn
  <2> DEFINE begun == [r EXCEPT !.stalled = FALSE, !.redraw = "none",
                                !.swapped = FALSE]
  <2>1. f \in UNION {Drawn(u, ~Applies(r)) : u \in Updated(begun)}
    BY <1>2 DEF Frames
  <2>2. begun \in Loops /\ begun.displayOn = r.displayOn
    BY DEF Loops
  <2> HIDE DEF begun
  <2>3. PICK u \in Updated(begun) : f \in Drawn(u, ~Applies(r))
    BY <2>1
  <2>4. u \in Loops /\ u.displayOn = r.displayOn
    BY <2>2, UpdatedLemma
  <2>5. (~Applies(r)) \in BOOLEAN
    BY DEF Applies
  <2>6. Keeps(u, f)
    BY <2>3, <2>4, <2>5, DrawnLemma, Zenon
  <2> QED
    BY <2>4, <2>6 DEF Keeps
<1> QED
  BY <1>1, <1>2

\* An unstalled loop keeps what makes it draw; a stalled one draws a frame.
LEMMA UnstallLemma ==
    ASSUME NEW r \in Loops, NEW f \in Unstall(r),
           ~r.stalled => Draws(r)
    PROVE  Keeps(r, f)
BY FramesLemma DEF Unstall, Keeps

LEMMA StagedLemma ==
    ASSUME NEW r \in Loops, NEW why \in Changes,
           NEW f \in Staged(r, why), Draws(r)
    PROVE  Keeps(r, f)
<1>1. PICK ready \in BOOLEAN :
        f = [r EXCEPT !.staged = @ \cup {why}, !.ready = ready]
  BY DEF Staged
<1> QED
  BY <1>1 DEF Loops, Keeps, Draws

LEMMA NewOutputLemma ==
    ASSUME NEW r \in Loops
    PROVE  WithNewOutput(r) \in Loops /\ WithNewOutput(r).displayOn = r.displayOn
<1> DEFINE kept == IF "rotation" \in r.staged
                   THEN (r.staged \ {"rotation"}) \cup {"nothing"} ELSE r.staged
<1>1. kept \in SUBSET Changes
  BY DEF Loops, Changes
<1>2. WithNewOutput(r) = [r EXCEPT !.device = TRUE, !.vblank = FALSE, !.staged = kept]
  BY DEF WithNewOutput
<1> HIDE DEF kept
<1> QED
  BY <1>1, <1>2 DEF Loops

----------------------------------------------------------------------------
(* The handlers of the loop. *)

LEMMA RequestStep == ASSUME LoopInv, Request PROVE Keeps(loop, loop')
<1>1. PICK r \in Staged(loop, "switch") : loop' \in Unstall(r)
  BY DEF Request
<1>2. Keeps(loop, r)
  BY <1>1, StagedLemma DEF LoopInv, Changes
<1>3. Keeps(r, loop')
  BY <1>1, <1>2, UnstallLemma DEF Keeps
<1> QED
  BY <1>2, <1>3 DEF Keeps

LEMMA SilentStep == ASSUME LoopInv, SilentRequest \/ Unlock PROVE Keeps(loop, loop')
BY StagedLemma DEF SilentRequest, Unlock, LoopInv, Changes

\* Damage is safe because `unstall` follows it.
LEMMA DamagedLemma ==
    ASSUME NEW r \in Loops, Draws(r), NEW ready \in BOOLEAN,
           NEW f \in Unstall([r EXCEPT !.damage = TRUE, !.ready = ready])
    PROVE  Keeps(r, f)
<1> DEFINE d == [r EXCEPT !.damage = TRUE, !.ready = ready]
<1>1. d \in Loops /\ (~d.stalled => Draws(d)) /\ d.displayOn = r.displayOn
  BY DEF Loops, Draws
<1> HIDE DEF d
<1>2. Keeps(d, f)
  BY <1>1, UnstallLemma DEF d
<1> QED
  BY <1>1, <1>2 DEF Keeps

LEMMA CommitStep == ASSUME LoopInv, Commit PROVE Keeps(loop, loop')
<1>1. PICK ready \in {loop.ready, TRUE} :
        loop' \in Unstall([loop EXCEPT !.damage = TRUE, !.ready = ready])
  BY DEF Commit
<1>2. ready \in BOOLEAN
  BY DEF LoopInv, Loops
<1> QED
  BY <1>1, <1>2, DamagedLemma DEF LoopInv

LEMMA CloseStep ==
    ASSUME LoopInv, NEW which \in {"active", "other"}, CloseFullscreen(which)
    PROVE  Keeps(loop, loop')
<1> DEFINE r == [loop EXCEPT !.fullscreen = which]
<1>1. r \in Loops /\ Draws(r) /\ loop' \in Unstall(r) /\ r.displayOn = loop.displayOn
  BY DEF LoopInv, Loops, Draws, CloseFullscreen
<1> HIDE DEF r
<1> QED
  BY <1>1, UnstallLemma DEF Keeps

LEMMA TickStep == ASSUME LoopInv, Tick PROVE Keeps(loop, loop')
BY DEF LoopInv, Tick, Loops, Draws, Keeps

LEMMA RedrawStep == ASSUME LoopInv, RedrawFires PROVE Keeps(loop, loop')
<1> DEFINE r == [loop EXCEPT !.redraw = "none"]
<1>1. r \in Loops /\ loop' \in Frames(r) /\ r.displayOn = loop.displayOn
  BY DEF LoopInv, Loops, RedrawFires
<1> HIDE DEF r
<1> QED
  BY <1>1, FramesLemma DEF Keeps

LEMMA VBlankStep == ASSUME LoopInv, VBlank PROVE Keeps(loop, loop')
<1> DEFINE r == [loop EXCEPT !.vblank = FALSE]
<1>1. r \in Loops /\ r.displayOn = loop.displayOn
  BY DEF LoopInv, Loops
<1>2. CASE loop' = [r EXCEPT !.redraw = "soon"]
  BY <1>1, <1>2 DEF LoopInv, Loops, Draws, Keeps
<1>3. CASE loop' \in Frames(r)
  <2> HIDE DEF r
  <2> QED
    BY <1>1, <1>3, FramesLemma DEF Keeps
<1> QED
  BY <1>2, <1>3 DEF VBlank

LEMMA DisplayStep == ASSUME LoopInv, DisplayOff \/ DisplayOn PROVE LoopInv'
<1>1. ASSUME DisplayOff PROVE LoopInv'
  BY <1>1 DEF LoopInv, DisplayOff, Loops, Draws
<1>2. ASSUME DisplayOn PROVE LoopInv'
  BY <1>2 DEF LoopInv, DisplayOn, Loops, Draws
<1> QED
  BY <1>1, <1>2

LEMMA DeviceRemovedStep == ASSUME LoopInv, DeviceRemoved PROVE Keeps(loop, loop')
BY DEF LoopInv, DeviceRemoved, Loops, Draws, Keeps

LEMMA NewOutputStep ==
    ASSUME LoopInv, DeviceAdded \/ DeviceChanged \/ DeviceRetried \/ SessionActivated
    PROVE  Keeps(loop, loop')
<1> DEFINE r == WithNewOutput(loop)
           d == [r EXCEPT !.damage = TRUE]
           s == [r EXCEPT !.swapped = TRUE]
<1>1. r \in Loops /\ r.displayOn = loop.displayOn
  BY NewOutputLemma DEF LoopInv
<1>2. loop' = s \/ loop' \in Frames(r) \/ loop' \in Frames(d)
  BY DEF DeviceAdded, DeviceChanged, DeviceRetried, SessionActivated
<1> HIDE DEF r
<1>3. /\ d \in Loops /\ d.displayOn = loop.displayOn
      /\ s \in Loops /\ s.displayOn = loop.displayOn /\ Draws(s)
  BY <1>1 DEF Loops, Draws
<1> HIDE DEF d, s
<1> QED
  BY <1>1, <1>2, <1>3, FramesLemma DEF Keeps

----------------------------------------------------------------------------
(* The orientation. *)

\* The last orientation the sensor reported is the one an unlock turns to.
AccelKnown == accel.last \in {None, rotation.unlocked}

PollingKnown ==
    /\ accel.enabled => ~rotation.locked
    /\ loop.displayOn /\ ~rotation.locked => accel.enabled

Caught == ~rotation.locked /\ ~replaced => rotation.output = rotation.unlocked

IInv ==
    /\ LoopInv
    /\ accel \in Accelerometers
    /\ rotation \in Rotations
    /\ transform \in [Toplevels -> Orientations \cup {None}]
    /\ replaced \in BOOLEAN
    /\ AccelKnown
    /\ PollingKnown
    /\ TransformsMatch
    /\ Caught

LEMMA ReportedLemma ==
    ASSUME accel \in Accelerometers, NEW reading \in Orientations \cup {Flat}
    PROVE  Reported(reading) \in Orientations
BY OrientationAssumption DEF Reported, Accelerometers

\* What a frame makes of the canvas leaves the rest of the rotation alone.
LEMMA AppliedLemma ==
    ASSUME NEW q \in Rotations, NEW r, NEW f
    PROVE  LET p == Applied(q, r, f)
           IN  /\ p \in Rotations /\ p.locked = q.locked
               /\ p.unlocked = q.unlocked /\ p.output = q.output
BY DEF Applied, Rotations

LEMMA TurnedLemma ==
    ASSUME LoopInv, NEW o \in Orientations, NEW r \in Turned(loop, o)
    PROVE  Keeps(loop, r)
<1> DEFINE u == [loop EXCEPT !.staged = @ \ {"rotation"}]
<1>1. u \in Loops /\ Draws(u) /\ u.displayOn = loop.displayOn /\ r \in Staged(u, Turning(o))
  BY DEF LoopInv, Loops, Draws, Turned
<1>2. Turning(o) \in Changes
  BY DEF Turning, Changes
<1> HIDE DEF u
<1>3. Keeps(u, r)
  BY <1>1, <1>2, StagedLemma
<1> QED
  BY <1>1, <1>3 DEF Keeps

LEMMA TransformedLemma ==
    ASSUME transform \in [Toplevels -> Orientations \cup {None}], NEW o \in Orientations
    PROVE  /\ Transformed(o) \in [Toplevels -> Orientations \cup {None}]
           /\ \A w \in Toplevels : Transformed(o)[w] \in {None, o}
BY DEF Transformed

LEMMA PollStep ==
    ASSUME IInv, NEW reading \in Orientations \cup {Flat}, Poll(reading)
    PROVE  IInv'
<1> DEFINE o == Reported(reading)
           now == [rotation EXCEPT !.unlocked = o, !.output = o]
<1>1. o \in Orientations /\ ~rotation.locked /\ accel.enabled
  BY ReportedLemma DEF IInv, PollingKnown, Poll
<1>2. accel' = [accel EXCEPT !.last = o]
  BY DEF Poll
<1>3. PICK r \in Turned(loop, o) : \E f \in Unstall([r EXCEPT !.damage = TRUE]) :
        /\ loop' = f
        /\ rotation' = Applied(now, r, f)
        /\ transform' = Transformed(o)
        /\ replaced' = FALSE
  BY <1>1 DEF Poll
<1> HIDE DEF o
<1>4. Keeps(loop, r)
  BY <1>1, TurnedLemma DEF IInv
<1>5. [r EXCEPT !.damage = TRUE] = [r EXCEPT !.damage = TRUE, !.ready = r.ready]
      /\ r.ready \in BOOLEAN
  BY <1>4 DEF Keeps, Loops
<1>6. loop' \in Unstall([r EXCEPT !.damage = TRUE, !.ready = r.ready])
  BY <1>3, <1>5
<1>7. Keeps(loop, loop')
  BY <1>4, <1>5, <1>6, DamagedLemma DEF Keeps
<1>8. now \in Rotations /\ now.locked = rotation.locked /\ now.unlocked = o /\ now.output = o
  BY <1>1 DEF IInv, Rotations
<1> HIDE DEF now
<1>9. /\ rotation' \in Rotations /\ ~rotation'.locked
      /\ rotation'.unlocked = o /\ rotation'.output = o
  BY <1>1, <1>3, <1>8, AppliedLemma
<1>10. accel' \in Accelerometers /\ accel'.last = o /\ accel'.enabled
  BY <1>1, <1>2 DEF IInv, Accelerometers
<1>11. /\ transform' \in [Toplevels -> Orientations \cup {None}]
       /\ \A w \in Toplevels : transform'[w] \in {None, o}
       /\ replaced' = FALSE
  BY <1>1, <1>3, TransformedLemma DEF IInv
<1> QED
  BY <1>7, <1>9, <1>10, <1>11
     DEF IInv, LoopInv, Keeps, AccelKnown, PollingKnown, TransformsMatch, Caught

\* A rotation the sensor did not ask for.
LEMMA TurnLemma ==
    ASSUME IInv, NEW o \in Orientations, NEW locked \in BOOLEAN, Turn(o, locked)
    PROVE  /\ Keeps(loop, loop')
           /\ rotation' \in Rotations
           /\ rotation'.locked = locked /\ rotation'.output = o
           /\ rotation'.unlocked = rotation.unlocked
           /\ transform' \in [Toplevels -> Orientations \cup {None}]
           /\ replaced' = FALSE
           /\ TransformsMatch'
<1> DEFINE now == [rotation EXCEPT !.locked = locked, !.output = o]
<1>1. PICK r \in Turned(loop, o) : \E f \in Unstall(r) :
        loop' = f /\ rotation' = Applied(now, r, f)
  BY DEF Turn
<1>2. transform' = Transformed(o) /\ replaced' = FALSE
  BY DEF Turn
<1>3. Keeps(loop, r)
  BY TurnedLemma DEF IInv
<1>4. Keeps(loop, loop')
  BY <1>1, <1>3, UnstallLemma DEF Keeps
<1>5. /\ now \in Rotations /\ now.locked = locked /\ now.output = o
      /\ now.unlocked = rotation.unlocked
  BY DEF IInv, Rotations
<1> HIDE DEF now
<1>6. /\ rotation' \in Rotations
      /\ rotation'.locked = locked /\ rotation'.output = o
      /\ rotation'.unlocked = rotation.unlocked
  BY <1>1, <1>5, AppliedLemma
<1>7. /\ transform' \in [Toplevels -> Orientations \cup {None}]
      /\ \A w \in Toplevels : transform'[w] \in {None, o}
  BY <1>2, TransformedLemma DEF IInv
<1> QED
  BY <1>2, <1>4, <1>6, <1>7 DEF TransformsMatch

LEMMA LockToStep ==
    ASSUME IInv, NEW o \in Orientations, LockOrientationTo(o)
    PROVE  IInv'
<1>1. Turn(o, TRUE) /\ accel' = [accel EXCEPT !.enabled = FALSE]
  BY DEF LockOrientationTo
<1>2. accel' \in Accelerometers /\ accel'.last = accel.last /\ ~accel'.enabled
  BY <1>1 DEF IInv, Accelerometers
<1> QED
  BY <1>1, <1>2, TurnLemma DEF IInv, LoopInv, Keeps, AccelKnown, PollingKnown, Caught

LEMMA UnlockOrientationStep ==
    ASSUME IInv, UnlockOrientation
    PROVE  IInv'
<1>1. Turn(rotation.unlocked, FALSE) /\ accel' = [accel EXCEPT !.enabled = TRUE]
  BY DEF UnlockOrientation
<1>2. accel' \in Accelerometers /\ accel'.last = accel.last /\ accel'.enabled
  BY <1>1 DEF IInv, Accelerometers
<1>3. rotation.unlocked \in Orientations
  BY DEF IInv, Rotations
<1> QED
  BY <1>1, <1>2, <1>3, TurnLemma DEF IInv, LoopInv, Keeps, AccelKnown, PollingKnown, Caught

LEMMA LockStep ==
    ASSUME IInv, LockOrientation
    PROVE  IInv'
<1> DEFINE now == [rotation EXCEPT !.locked = TRUE]
<1>1. /\ loop' \in Unstall(loop) /\ rotation' = Applied(now, loop, loop')
      /\ accel' = [accel EXCEPT !.enabled = FALSE]
      /\ transform' = transform /\ replaced' = replaced
  BY DEF LockOrientation
<1>2. Keeps(loop, loop')
  BY <1>1, UnstallLemma DEF IInv, LoopInv
<1>3. /\ now \in Rotations /\ now.locked /\ now.output = rotation.output
      /\ now.unlocked = rotation.unlocked
  BY DEF IInv, Rotations
<1> HIDE DEF now
<1>4. /\ rotation' \in Rotations /\ rotation'.locked
      /\ rotation'.output = rotation.output /\ rotation'.unlocked = rotation.unlocked
  BY <1>1, <1>3, AppliedLemma
<1>5. accel' \in Accelerometers /\ accel'.last = accel.last /\ ~accel'.enabled
  BY <1>1 DEF IInv, Accelerometers
<1> QED
  BY <1>1, <1>2, <1>4, <1>5
     DEF IInv, LoopInv, Keeps, AccelKnown, PollingKnown, TransformsMatch, Caught

\* What handlers have in common that leave the orientation to the next frame.
LEMMA DrawingLemma ==
    ASSUME IInv, Drawing
    PROVE  /\ rotation' \in Rotations /\ rotation'.locked = rotation.locked
           /\ rotation'.output = rotation.output
           /\ rotation'.unlocked = rotation.unlocked
           /\ transform' = transform /\ replaced' = replaced
BY AppliedLemma DEF IInv, Drawing

LEMMA OrdinaryStep ==
    ASSUME IInv, Ordinary, Keeps(loop, loop')
    PROVE  IInv'
<1>1. accel' = accel
  BY DEF Ordinary
<1> QED
  BY <1>1, DrawingLemma
     DEF Ordinary, IInv, LoopInv, Keeps, AccelKnown, PollingKnown, TransformsMatch, Caught

LEMMA SwitchStep ==
    ASSUME IInv, SwitchOff \/ SwitchOn
    PROVE  IInv'
<1>1. LoopInv'
  BY DisplayStep DEF IInv, SwitchOff, SwitchOn
<1>2. CASE SwitchOff
  <2>1. accel' \in Accelerometers /\ accel'.last = accel.last /\ ~accel'.enabled
    BY <1>2 DEF IInv, Accelerometers, SwitchOff
  <2>2. ~loop'.displayOn
    BY <1>2 DEF SwitchOff, DisplayOff, IInv, LoopInv, Loops
  <2>3. Drawing
    BY <1>2 DEF SwitchOff
  <2> QED
    BY <1>1, <2>1, <2>2, <2>3, DrawingLemma
       DEF IInv, AccelKnown, PollingKnown, TransformsMatch, Caught
<1>3. CASE SwitchOn
  <2>1. /\ accel' \in Accelerometers /\ accel'.last = accel.last
        /\ accel'.enabled <=> accel.enabled \/ ~rotation.locked
    <3>1. accel' = [accel EXCEPT !.enabled = @ \/ ~rotation.locked]
      BY <1>3 DEF SwitchOn
    <3>2. rotation.locked \in BOOLEAN /\ accel.enabled \in BOOLEAN
      BY DEF IInv, Rotations, Accelerometers
    <3> QED
      BY <3>1, <3>2 DEF IInv, Accelerometers
  <2>2. Drawing
    BY <1>3 DEF SwitchOn
  <2> QED
    BY <1>1, <2>1, <2>2, DrawingLemma
       DEF IInv, AccelKnown, PollingKnown, TransformsMatch, Caught
<1> QED
  BY <1>2, <1>3

LEMMA ToplevelStep ==
    ASSUME IInv, NEW w \in Toplevels, Add(w) \/ Destroy(w)
    PROVE  IInv'
<1>1. Keeps(loop, loop')
  BY SilentStep DEF IInv, Add, Destroy
<1>2. UNCHANGED <<accel, rotation, replaced>>
  BY DEF Add, Destroy
<1>3. rotation.output \in Orientations
  BY DEF IInv, Rotations
<1>4. \/ transform' = [transform EXCEPT ![w] = rotation.output]
      \/ transform' = [transform EXCEPT ![w] = None]
  BY DEF Add, Destroy
<1>5. transform' \in [Toplevels -> Orientations \cup {None}]
  BY <1>3, <1>4 DEF IInv
<1>6. TransformsMatch'
  BY <1>2, <1>4 DEF IInv, TransformsMatch
<1> QED
  BY <1>1, <1>2, <1>5, <1>6 DEF IInv, LoopInv, Keeps, AccelKnown, PollingKnown, Caught

\* A new output is upright whatever was locked or reported, and `replaced` says so.
LEMMA ReplaceStep ==
    ASSUME IInv, ReplaceOutput
    PROVE  IInv'
<1>1. Keeps(loop, loop')
  BY NewOutputStep DEF IInv, ReplaceOutput
<1>2. /\ rotation' = [rotation EXCEPT !.output = Portrait, !.canvas = Portrait]
      /\ replaced' = TRUE /\ accel' = accel /\ transform' = transform
  BY DEF ReplaceOutput
<1>3. /\ rotation' \in Rotations /\ rotation'.locked = rotation.locked
      /\ rotation'.unlocked = rotation.unlocked
  BY <1>2, OrientationAssumption DEF IInv, Rotations
<1> QED
  BY <1>1, <1>2, <1>3
     DEF IInv, LoopInv, Keeps, AccelKnown, PollingKnown, TransformsMatch, Caught

LEMMA OtherStep ==
    ASSUME IInv, LateTransaction \/ Redraw \/ NextVBlank \/ Other
    PROVE  IInv'
<1>1. Ordinary
  BY DEF LateTransaction, Redraw, NextVBlank, Other
<1>2. CASE LateTransaction
  BY <1>1, <1>2, TickStep, OrdinaryStep DEF IInv, LateTransaction
<1>3. CASE Redraw
  BY <1>1, <1>3, RedrawStep, OrdinaryStep DEF IInv, Redraw
<1>4. CASE NextVBlank
  BY <1>1, <1>4, VBlankStep, OrdinaryStep DEF IInv, NextVBlank
<1>5. CASE Other
  <2>1. Keeps(loop, loop')
    BY <1>5, RequestStep, SilentStep, CommitStep, CloseStep, DeviceRemovedStep
       DEF IInv, Other
  <2> QED
    BY <1>1, <2>1, OrdinaryStep
<1> QED
  BY <1>2, <1>3, <1>4, <1>5

LEMMA InitIInv == OrientationInit => IInv
<1> SUFFICES ASSUME OrientationInit PROVE IInv
  OBVIOUS
<1>1. LoopInv
  BY DEF OrientationInit, Init, LoopInv, Loops, Draws
<1> QED
  BY <1>1, OrientationAssumption
     DEF OrientationInit, IInv, Accelerometers, Rotations, AccelKnown, PollingKnown,
         TransformsMatch, Caught

LEMMA NextIInv == IInv /\ [OrientationNext]_allVars => IInv'
<1> SUFFICES ASSUME IInv, [OrientationNext]_allVars PROVE IInv'
  OBVIOUS
<1>1. CASE OrientationNext
  BY <1>1, PollStep, LockToStep, LockStep, UnlockOrientationStep, ToplevelStep,
     SwitchStep, OtherStep, ReplaceStep DEF OrientationNext
<1>2. CASE UNCHANGED allVars
  BY <1>2 DEF allVars, orientationVars, IInv, LoopInv, AccelKnown, PollingKnown,
              TransformsMatch, Caught, Draws
<1> QED
  BY <1>1, <1>2

LEMMA Invariance == OrientationSpec => []IInv
BY InitIInv, NextIInv, PTL DEF OrientationSpec

----------------------------------------------------------------------------
(* The theorems. *)

\* The variables keep their types, for any orientations and toplevels.
THEOREM TypeCorrect == OrientationSpec => []OrientationTypeOK
<1>1. IInv => OrientationTypeOK
  BY DEF IInv, LoopInv, OrientationTypeOK, TypeOK
<1> QED
  BY <1>1, Invariance, PTL

\* With a screen, the loop never waits for a frame nobody will draw: damage, and
\* a loop that `unstall` leaves alone, have a VBlank or a redraw on its way,
\* unless a device was swapped without a frame.
THEOREM LoopNeverFreezes == OrientationSpec => []NeverFrozen
<1>1. IInv => NeverFrozen
  BY DrawsIsNeverFrozen DEF IInv, LoopInv
<1> QED
  BY <1>1, Invariance, PTL

\* The sensor is polled when it should be, in whatever order the orientation is
\* locked and unlocked and the display is switched off and on.
THEOREM SensorPolled == OrientationSpec => []PollingMatches
<1>1. IInv => PollingMatches
  BY DEF IInv, PollingKnown, PollingMatches, Screen
<1> QED
  BY <1>1, Invariance, PTL

\* As long as the output is not replaced, windows know its orientation, and an
\* unlock catches up with the sensor, which is polled when it should be.
THEOREM OrientationsAreOne == OrientationSpec => []OrientationsAgree
<1>1. IInv => TransformsMatch /\ UnlockedFollows
  BY DEF IInv, AccelKnown, Caught, UnlockedFollows
<1>2. OrientationSpec => [](TransformsMatch /\ UnlockedFollows)
  BY <1>1, Invariance, PTL
<1> QED
  BY <1>2, SensorPolled, PTL DEF OrientationsAgree
============================================================================
