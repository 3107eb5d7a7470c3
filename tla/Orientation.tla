---------------------------- MODULE Orientation ----------------------------
(***************************************************************************)
(* The orientation of the output: the accelerometer and its poll timer     *)
(* (src/output/orientation.rs), the orientation lock (src/shell/windows/   *)
(* mod.rs), the output and its canvas (src/output/mod.rs), composed with   *)
(* the frame loop of module RenderLoop.  A rotation changes the output at  *)
(* once, and the canvas, which is what frames are drawn with, when the     *)
(* transaction it starts is applied.  The loop knows a rotation that its   *)
(* next update applies as the staged change "rotation", and a transaction  *)
(* that has nothing to apply as "nothing".                                 *)
(*                                                                         *)
(* `accel` is a record:                                                    *)
(*   last        the last orientation that was reported, or None           *)
(*   enabled     the poll timer is enabled                                 *)
(* `rotation` is a record:                                                 *)
(*   locked      orientation_locked                                        *)
(*   unlocked    unlocked_orientation                                      *)
(*   output      the orientation of the output                             *)
(*   canvas      the orientation frames are drawn with                     *)
(***************************************************************************)
EXTENDS RenderLoop

CONSTANTS
    Orientations,
    Portrait,        \* the orientation of a new output
    None, Flat,
    Toplevels        \* toplevels clients may create

ASSUME OrientationAssumption ==
    /\ Portrait \in Orientations
    /\ None \notin Orientations
    /\ Flat \notin Orientations

VARIABLES
    accel,
    rotation,
    transform,   \* the buffer transform each toplevel was told, or None
    replaced     \* history: there was a new output since the last rotation

orientationVars == <<accel, rotation, transform, replaced>>
allVars == <<loop, orientationVars>>

Accelerometers == [last : Orientations \cup {None}, enabled : BOOLEAN]

Rotations == [locked : BOOLEAN, unlocked : Orientations, output : Orientations,
              canvas : Orientations]

\* The orientation is locked at first, and the poll timer disabled.
OrientationInit ==
    /\ Init
    /\ accel = [last |-> None, enabled |-> FALSE]
    /\ rotation = [locked |-> TRUE, unlocked |-> Portrait, output |-> Portrait,
                   canvas |-> Portrait]
    /\ transform = [w \in Toplevels |-> None]
    /\ replaced = FALSE

----------------------------------------------------------------------------
(* set_orientation. *)

\* A transaction is started even if the output is turned to where it was.
Turning(o) == IF o = rotation.canvas THEN "nothing" ELSE "rotation"

Turned(r, o) == Staged([r EXCEPT !.staged = @ \ {"rotation"}], Turning(o))

Transformed(o) ==
    [w \in Toplevels |-> IF transform[w] = None THEN None ELSE o]

\* The canvas becomes that of the output when a frame applies what is staged.
Applied(r, before, after) ==
    [r EXCEPT !.canvas = IF "rotation" \in before.staged \ after.staged THEN r.output ELSE @]

----------------------------------------------------------------------------
(* The sensor. *)

\* Without a reading the last one counts, and portrait if there was none.
Reported(reading) ==
    IF reading # Flat THEN reading
    ELSE IF accel.last # None THEN accel.last ELSE Portrait

\* Slip: a rotation does not force a redraw.
PollSilently(reading) ==
    LET o == Reported(reading)
    IN  /\ accel.enabled
        /\ o # accel.last
        /\ accel' = [accel EXCEPT !.last = o]
        /\ rotation' = [rotation EXCEPT !.unlocked = o, !.output = o]
        /\ loop' \in Turned(loop, o)
        /\ transform' = Transformed(o)
        /\ replaced' = FALSE

\* The timer calls handle_orientation when the orientation is a new one:
\* update_orientation, and a redraw.
Poll(reading) ==
    LET o == Reported(reading)
    IN  /\ accel.enabled
        /\ o # accel.last
        /\ accel' = [accel EXCEPT !.last = o]
        /\ IF rotation.locked
           THEN /\ loop' \in Unstall([loop EXCEPT !.damage = TRUE])
                /\ rotation' = [rotation EXCEPT !.unlocked = o]
                /\ UNCHANGED <<transform, replaced>>
           ELSE \E r \in Turned(loop, o) : \E f \in Unstall([r EXCEPT !.damage = TRUE]) :
                    /\ loop' = f
                    /\ rotation' = Applied([rotation EXCEPT !.unlocked = o, !.output = o], r, f)
                    /\ transform' = Transformed(o)
                    /\ replaced' = FALSE

----------------------------------------------------------------------------
(* The lock. *)

\* A rotation by a handler that unstalls the loop, which may apply it at once.
Turn(o, locked) ==
    /\ \E r \in Turned(loop, o) : \E f \in Unstall(r) :
         /\ loop' = f
         /\ rotation' = Applied([rotation EXCEPT !.locked = locked, !.output = o], r, f)
    /\ transform' = Transformed(o)
    /\ replaced' = FALSE

LockOrientationTo(o) ==
    /\ accel' = [accel EXCEPT !.enabled = FALSE]
    /\ Turn(o, TRUE)

\* The current orientation is kept.
LockOrientation ==
    /\ accel' = [accel EXCEPT !.enabled = FALSE]
    /\ loop' \in Unstall(loop)
    /\ rotation' = Applied([rotation EXCEPT !.locked = TRUE], loop, loop')
    /\ UNCHANGED <<transform, replaced>>

UnlockOrientation ==
    /\ accel' = [accel EXCEPT !.enabled = TRUE]
    /\ Turn(rotation.unlocked, FALSE)

----------------------------------------------------------------------------
(* Toplevels. *)

\* Slip: a new window is told the orientation frames are drawn with.
AddForCanvas(w) ==
    /\ transform[w] = None
    /\ SilentRequest
    /\ transform' = [transform EXCEPT ![w] = rotation.canvas]
    /\ UNCHANGED <<accel, rotation, replaced>>

\* `add`: Window::new tells the window the orientation of the output.
Add(w) ==
    /\ transform[w] = None
    /\ SilentRequest
    /\ transform' = [transform EXCEPT ![w] = rotation.output]
    /\ UNCHANGED <<accel, rotation, replaced>>

\* A client destroys its window, which an update takes from its layout.
Destroy(w) ==
    /\ transform[w] # None
    /\ SilentRequest
    /\ transform' = [transform EXCEPT ![w] = None]
    /\ UNCHANGED <<accel, rotation, replaced>>

----------------------------------------------------------------------------
(* The frame loop. *)

Drawing ==
    /\ rotation' = Applied(rotation, loop, loop')
    /\ UNCHANGED <<transform, replaced>>

\* set_display_status.
SwitchOff ==
    /\ DisplayOff
    /\ accel' = [accel EXCEPT !.enabled = FALSE]
    /\ Drawing

SwitchOn ==
    /\ DisplayOn
    /\ accel' = [accel EXCEPT !.enabled = @ \/ ~rotation.locked]
    /\ Drawing

Ordinary == Drawing /\ UNCHANGED accel

LateTransaction == Tick /\ Ordinary

Redraw == RedrawFires /\ Ordinary

NextVBlank == VBlank /\ Ordinary

\* Handlers that have nothing to do with the orientation.
Other ==
    /\ \/ Request
       \/ SilentRequest
       \/ Unlock
       \/ Commit
       \/ \E which \in {"active", "other"} : CloseFullscreen(which)
       \/ DeviceRemoved
    /\ Ordinary

\* set_output: a new output is upright, nobody is told, and no transaction is
\* started.
ReplaceOutput ==
    /\ DeviceAdded \/ DeviceChanged \/ DeviceRetried \/ SessionActivated
    /\ rotation' = [rotation EXCEPT !.output = Portrait, !.canvas = Portrait]
    /\ replaced' = TRUE
    /\ UNCHANGED <<accel, transform>>

OrientationNext ==
    \/ \E reading \in Orientations \cup {Flat} : Poll(reading)
    \/ \E o \in Orientations : LockOrientationTo(o)
    \/ LockOrientation
    \/ UnlockOrientation
    \/ \E w \in Toplevels : Add(w) \/ Destroy(w)
    \/ SwitchOff
    \/ SwitchOn
    \/ LateTransaction
    \/ Redraw
    \/ NextVBlank
    \/ Other
    \/ ReplaceOutput

\* The fairness of RenderLoop.
OrientationSpec ==
    /\ OrientationInit /\ [][OrientationNext]_allVars
    /\ WF_allVars(LateTransaction) /\ WF_allVars(Redraw) /\ WF_allVars(NextVBlank)
----------------------------------------------------------------------------
(* Properties. *)

\* The variables have their types.
OrientationTypeOK ==
    /\ TypeOK
    /\ accel \in Accelerometers
    /\ rotation \in Rotations
    /\ transform \in [Toplevels -> Orientations \cup {None}]
    /\ replaced \in BOOLEAN

\* The sensor is not polled while the orientation is locked, and it is polled
\* while the display is on and the orientation is not locked, whatever the order
\* in which locks and the display are switched.
PollingMatches ==
    /\ accel.enabled => ~rotation.locked
    /\ Screen /\ ~rotation.locked => accel.enabled

\* Windows were told the orientation of the output, those created during a
\* rotation too; not if the output was replaced since.
TransformsMatch ==
    ~replaced => \A w \in Toplevels : transform[w] \in {None, rotation.output}

\* After an unlock the output has the orientation the sensor reported last,
\* whatever was locked in between.
UnlockedFollows ==
    ~rotation.locked /\ ~replaced =>
        rotation.output = rotation.unlocked /\ accel.last \in {None, rotation.output}

\* Lock, sensor, output and windows agree about the orientation, in whatever order
\* locks, rotations, windows and the display come and go.
OrientationsAgree == PollingMatches /\ TransformsMatch /\ UnlockedFollows

\* With a screen, every rotation is drawn in the end, whichever requests, clients
\* that never answer, dead windows and frames it meets: its handlers leave no
\* loop without a next frame.
RotationDrawn ==
    \A o \in Orientations :
        rotation.output = o /\ Screen
          ~> rotation.canvas = o \/ rotation.output # o \/ ~Screen \/ loop.swapped

----------------------------------------------------------------------------
(* What comments of the code say and the code does not do. *)

\* shell/windows/mod.rs:2151, "Lock the output's orientation.": a locked output
\* turns only when another orientation is locked.
LockedKeepsOrientation ==
    [][ rotation.locked /\ rotation'.locked /\ rotation'.output # rotation.output
          => \E o \in Orientations : LockOrientationTo(o) ]_allVars

============================================================================
