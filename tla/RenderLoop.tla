----------------------------- MODULE RenderLoop -----------------------------
(***************************************************************************)
(* The frame loop: `create_frame` and `unstall` (src/state.rs), redraw     *)
(* timers, VBlanks and output devices (src/backend/udev.rs, drm.rs).  The  *)
(* window manager of module Shell shrinks to what frames depend on.        *)
(*                                                                         *)
(* `loop` is a record:                                                     *)
(*   displayOn   the output is powered                                     *)
(*   device      there is an output device                                 *)
(*   stalled     `unstall` may create a frame                              *)
(*   damage      something on screen changed since the last frame          *)
(*   staged      why the transaction timer runs: a "switch" of view or     *)
(*               layout a handler asked for, an "unlock", the "fix" an     *)
(*               update stages when it finds the fullscreen window dead, a *)
(*               "rotation" (module Orientation), or "nothing" at all      *)
(*   ready       every participant of the transaction is done              *)
(*   late        the transaction timed out                                 *)
(*   fullscreen  the dead window the view shows, not noticed yet: none, of *)
(*               the "active" layout or of an "other" one                  *)
(*   redraw      the redraw timer: none, "soon" or at the "deadline"       *)
(*   vblank      a submitted frame waits for its VBlank                    *)
(*   swapped     a device came without a frame since the last frame        *)
(***************************************************************************)
EXTENDS Integers, FiniteSets

VARIABLE loop

vars == <<loop>>

Changes == {"switch", "unlock", "fix", "rotation", "nothing"}

Loops == [displayOn : BOOLEAN, device : BOOLEAN, stalled : BOOLEAN,
          damage : BOOLEAN, staged : SUBSET Changes, ready : BOOLEAN, late : BOOLEAN,
          fullscreen : {"none", "active", "other"},
          redraw : {"none", "soon", "deadline"}, vblank : BOOLEAN,
          swapped : BOOLEAN]

\* A device was added and drew its first frame.
Init == loop = [displayOn |-> TRUE, device |-> TRUE, stalled |-> FALSE,
                damage |-> FALSE, staged |-> {}, ready |-> TRUE, late |-> FALSE,
                fullscreen |-> "none", redraw |-> "none", vblank |-> TRUE,
                swapped |-> FALSE]

----------------------------------------------------------------------------
(* create_frame. *)

Applies(r) == r.staged = {} \/ r.ready \/ r.late

\* Slip: what is fixed is staged instead of the fix.
FixesByLayout(r) == IF r.fullscreen = "none" THEN {{}} ELSE {{r.fullscreen}}

\* fix_view_after_reap, unless a switch already left the fullscreen view.
Fixes(r) ==
    IF r.fullscreen = "none" THEN {{}}
    ELSE IF r.staged \subseteq {"rotation", "nothing"} THEN {{"fix"}} ELSE {{}, {"fix"}}

\* A dead active layout or an applied switch is damage, the switch staged for
\* a dead fullscreen window is not.
UpdateDamages(r) == r.damage \/ r.staged \ {"nothing"} # {} \/ r.fullscreen = "active"

Settled(r, fix, ready) ==
    [r EXCEPT !.damage = UpdateDamages(r), !.staged = fix, !.ready = ready,
              !.fullscreen = "none", !.late = FALSE]

\* update_transaction.
Updated(r) ==
    IF ~Applies(r) THEN {r}
    ELSE {Settled(r, fix, TRUE) : fix \in Fixes(r)}
           \cup {Settled(r, fix, FALSE) : fix \in Fixes(r) \ {{}}}

\* Slip: a frame without damage does not stall the loop.
DrawnWithoutStall(r, waits) ==
    IF ~r.damage
    THEN {[r EXCEPT !.redraw = IF waits THEN "deadline" ELSE "none"]}
    ELSE {f \in {[r EXCEPT !.damage = FALSE, !.redraw = "soon"],
                 [r EXCEPT !.damage = FALSE, !.vblank = TRUE]}
          : f.vblank => r.device}

\* Slip: no redraw is scheduled for the deadline of a transaction.
DrawnWithoutDeadline(r, waits) ==
    IF ~r.damage
    THEN {[r EXCEPT !.stalled = TRUE, !.redraw = "none"]}
    ELSE {f \in {[r EXCEPT !.damage = FALSE, !.redraw = "soon"],
                 [r EXCEPT !.damage = FALSE, !.vblank = TRUE]}
          : f.vblank => r.device}

\* Draw the damage, wait for the deadline of a transaction that is not applied
\* yet, or stall.  Without a device, or when nothing had to be submitted, an
\* artificial VBlank is scheduled.
Drawn(r, waits) ==
    IF ~r.damage
    THEN {[r EXCEPT !.stalled = TRUE,
                    !.redraw = IF waits THEN "deadline" ELSE "none"]}
    ELSE {f \in {[r EXCEPT !.damage = FALSE, !.redraw = "soon"],
                 [r EXCEPT !.damage = FALSE, !.vblank = TRUE]}
          : f.vblank => r.device}

Frames(r) ==
    IF ~r.displayOn THEN {[r EXCEPT !.stalled = TRUE]}
    ELSE LET begun == [r EXCEPT !.stalled = FALSE, !.redraw = "none", !.swapped = FALSE]
         IN  UNION {Drawn(u, ~Applies(r)) : u \in Updated(begun)}

Unstall(r) == IF r.stalled THEN Frames(r) ELSE {r}

----------------------------------------------------------------------------
(* Handlers. *)

\* Participants resized by the request have yet to ack it.
Staged(r, why) ==
    {[r EXCEPT !.staged = @ \cup {why}, !.ready = ready] : ready \in BOOLEAN}

\* Focus, toggle, taps, lock, unmapped or destroyed windows, ...
Request == \E r \in Staged(loop, "switch") : loop' \in Unstall(r)

\* Requests of clients that have yet to commit: new_toplevel,
\* fullscreen_request, unfullscreen_request, map_window_request.
SilentRequest == loop' \in Staged(loop, "switch")

\* The session lock's client unlocks.
Unlock == loop' \in Staged(loop, "unlock")

\* A client commits a buffer, and may ack its new size by that.
Commit ==
    \E ready \in {loop.ready, TRUE} :
        loop' \in Unstall([loop EXCEPT !.damage = TRUE, !.ready = ready])

\* close_app kills the fullscreen window, in the active layout or another one.
CloseFullscreen(which) ==
    /\ loop.fullscreen = "none"
    /\ loop' \in Unstall([loop EXCEPT !.fullscreen = which])

Tick ==
    /\ loop.staged # {}
    /\ ~loop.late
    /\ loop' = [loop EXCEPT !.late = TRUE]

----------------------------------------------------------------------------
(* Devices and timers. *)

RedrawFires ==
    /\ loop.redraw # "none"
    /\ loop' \in Frames([loop EXCEPT !.redraw = "none"])

\* The next frame is drawn at once, or when the frame pacer predicts.
VBlank ==
    /\ loop.vblank
    /\ loop.device
    /\ LET submitted == [loop EXCEPT !.vblank = FALSE]
       IN  \/ loop' = [submitted EXCEPT !.redraw = "soon"]
           \/ loop' \in Frames(submitted)

\* set_display_status: a VBlank on its way may still come.
DisplayOff ==
    /\ loop.displayOn
    /\ \E vblank \in {loop.vblank, FALSE} :
         loop' = [loop EXCEPT !.displayOn = FALSE, !.vblank = vblank]

DisplayOn ==
    /\ ~loop.displayOn
    /\ loop' = [loop EXCEPT !.displayOn = TRUE,
                            !.redraw = IF loop.device THEN "soon" ELSE @]

\* The udev event for a removed device; its VBlanks go with it.
DeviceRemoved ==
    /\ loop.device
    /\ loop' = [loop EXCEPT !.device = FALSE, !.vblank = FALSE]

\* set_output: the new output has no rotation left to apply.
WithNewOutput(r) ==
    [r EXCEPT !.device = TRUE, !.vblank = FALSE,
              !.staged = IF "rotation" \in @ THEN (@ \ {"rotation"}) \cup {"nothing"} ELSE @]

\* The udev event for a new device.
DeviceAdded ==
    /\ ~loop.device
    /\ loop' \in Frames(WithNewOutput(loop))

\* The udev event for a changed device: removed and added again.
DeviceChanged ==
    /\ loop.device
    /\ loop' = [WithNewOutput(loop) EXCEPT !.swapped = TRUE]

\* A device that could not be added at first is added by the retry timer.
DeviceRetried ==
    /\ ~loop.device
    /\ loop' = [WithNewOutput(loop) EXCEPT !.swapped = TRUE]

\* The session comes back from another VT: changed device and forced redraw.
SessionActivated ==
    /\ loop.device
    /\ loop' \in Frames([WithNewOutput(loop) EXCEPT !.damage = TRUE])

Next ==
    \/ Request
    \/ SilentRequest
    \/ Unlock
    \/ Commit
    \/ \E which \in {"active", "other"} : CloseFullscreen(which)
    \/ Tick
    \/ RedrawFires
    \/ VBlank
    \/ DisplayOff
    \/ DisplayOn
    \/ DeviceRemoved
    \/ DeviceAdded
    \/ DeviceChanged
    \/ DeviceRetried
    \/ SessionActivated

\* The kernel sends VBlanks, calloop fires timers, and time passes; clients,
\* users and devices owe nothing.
Spec == Init /\ [][Next]_vars
        /\ WF_vars(Tick) /\ WF_vars(RedrawFires) /\ WF_vars(VBlank)
----------------------------------------------------------------------------
(* Properties. *)

\* The loop state has its type.
TypeOK == loop \in Loops

Awake == loop.vblank \/ loop.redraw # "none"

Screen == loop.displayOn /\ loop.device

\* The loop cannot freeze: with a screen, whatever is damaged, and any loop that
\* is not stalled, so that `unstall` does nothing, has a VBlank or a timer to
\* draw the next frame.  A device swapped without a frame is the exception.
NeverFrozen ==
    Screen /\ (loop.damage \/ ~loop.stalled) => Awake \/ loop.swapped

\* A transaction that some frame will look at is applied, although clients
\* never answer and new requests keep joining it.
SeenSwitchApplied ==
    "switch" \in loop.staged /\ Screen /\ Awake
      ~> "switch" \notin loop.staged \/ ~Screen \/ loop.swapped

============================================================================
