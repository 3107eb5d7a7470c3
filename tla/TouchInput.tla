----------------------------- MODULE TouchInput -----------------------------
(***************************************************************************)
(* Touch and pointer input, `struct TouchState` and its handlers           *)
(* (src/input/mod.rs): one active slot, taps told from double taps, drags, *)
(* gestures of the handle at the bottom and gestures of the user, and the  *)
(* velocity that carries a drag or gesture on after its finger is lifted.  *)
(*                                                                         *)
(* Touch events are queued until the backend ends a frame and are then     *)
(* handled one after the other, with nothing in between: `frame` tells     *)
(* which of the two loops over them is running.  Points are places that    *)
(* are further apart than taps and double taps tolerate, and each is in a  *)
(* sector of its own.                                                      *)
(*                                                                         *)
(* `ts` is the TouchState (lastTap is NoPlace also when it is too old for  *)
(* a double tap) with what its handlers reach: the live timers, the slots  *)
(* that clients believe to be down, and the focus.  `ongoing` holds while  *)
(* the window manager was told of a drag or gesture of this touch but not  *)
(* of its end; it is never told when the touch is `cut` off by a second    *)
(* finger, by a release while the display is off or by a gesture of the    *)
(* user.  `ran` counts the user gestures that this touch has run.          *)
(***************************************************************************)
EXTENDS Naturals, Sequences, FiniteSets

CONSTANTS
    Slots,          \* touch slots of the touchscreen
    HasPointer,     \* a pointer device is plugged in
    PointerSlot,    \* POINTER_TOUCH_SLOT
    NoSlot,
    Places,
    HandlePlaces,   \* places on the gesture handle
    Steep,          \* pairs of places whose distance is rather vertical
    NoPlace,
    Surfaces,       \* what a touch may hit
    NoSurface,
    DenyFocus,      \* surfaces that take touches but no focus
    Inhibiting,     \* surfaces that inhibit shortcuts
    UserGestures,   \* bindings [start, end, apps]
    MaxEvents,      \* bound: queued touch events
    MaxTaps         \* bound: single taps that wait for their timeout

ASSUME TouchAssumption ==
    /\ HasPointer \in BOOLEAN
    /\ NoSlot \notin Slots \cup {PointerSlot}
    /\ NoPlace \notin Places
    /\ NoSurface \notin Surfaces
    /\ HandlePlaces \subseteq Places
    /\ DenyFocus \cup Inhibiting \subseteq Surfaces
    /\ UserGestures \subseteq
         [start : Places, end : Places, apps : SUBSET (Surfaces \cup {NoSurface})]

VARIABLES
    ts,
    queue,       \* touch_state.events
    frame,       \* "on", "off": queued events are handled; "no" otherwise
    displayOn,
    fingers,     \* slots with a finger on the touchscreen
    pressed,     \* the left pointer button is held
    dropped,     \* history: a release was not handled
    crowded      \* history: there were two fingers at a time

touchVars == <<ts, queue, frame, displayOn, fingers, pressed, dropped, crowded>>

AllSlots == Slots \cup {PointerSlot}
SlotOrNone == AllSlots \cup {NoSlot}
SurfaceOrNone == Surfaces \cup {NoSurface}

Event(ty, slot, place) == [ty |-> ty, slot |-> slot, place |-> place]
Events == [ty : {"down", "up", "motion"}, slot : AllSlots, place : Places]

TouchStates ==
    [slot : SlotOrNone, position : Places, velocity : BOOLEAN,
     start : Places, handle : BOOLEAN, dir : {"none", "vertical", "horizontal"},
     held : BOOLEAN, isDrag : BOOLEAN, lastTap : Places \cup {NoPlace},
     input : SurfaceOrNone, tap : SurfaceOrNone, app : SurfaceOrNone,
     token : BOOLEAN, singleTaps : Nat, velocityTimer : BOOLEAN,
     clients : SUBSET AllSlots, focus : SurfaceOrNone,
     ongoing : BOOLEAN, cut : BOOLEAN, ran : Nat]

TouchInit ==
    /\ \E p \in Places \ HandlePlaces :
         ts = [slot |-> NoSlot, position |-> p, velocity |-> FALSE,
               start |-> p, handle |-> FALSE, dir |-> "none",
               held |-> FALSE, isDrag |-> FALSE, lastTap |-> NoPlace,
               input |-> NoSurface, tap |-> NoSurface, app |-> NoSurface,
               token |-> FALSE, singleTaps |-> 0, velocityTimer |-> FALSE,
               clients |-> {}, focus |-> NoSurface,
               ongoing |-> FALSE, cut |-> FALSE, ran |-> 0]
    /\ queue = <<>>
    /\ frame = "no"
    /\ displayOn = TRUE
    /\ fingers = {}
    /\ pressed = FALSE
    /\ dropped = FALSE
    /\ crowded = FALSE

----------------------------------------------------------------------------
(* The touch state and its actions. *)

Touching(t) == t.slot # NoSlot

CancelVelocity(t) == [t EXCEPT !.velocity = FALSE, !.velocityTimer = FALSE]

\* Slip: a new touch lets the velocity of the last one go on.
StartCoasting(t, slot, place) ==
    IF Touching(t)
    THEN [t EXCEPT !.slot = NoSlot, !.lastTap = NoPlace, !.cut = t.ongoing]
    ELSE [t EXCEPT !.slot = slot, !.start = place, !.position = place,
                   !.handle = place \in HandlePlaces, !.dir = "none",
                   !.held = FALSE, !.isDrag = FALSE, !.ran = 0, !.ongoing = FALSE,
                   !.cut = FALSE]

\* A second slot invalidates both touches; nothing of the first is undone.
Start(t, slot, place) ==
    IF Touching(t)
    THEN [t EXCEPT !.slot = NoSlot, !.lastTap = NoPlace, !.cut = t.ongoing]
    ELSE [CancelVelocity(t) EXCEPT
            !.slot = slot, !.start = place, !.position = place,
            !.handle = place \in HandlePlaces, !.dir = "none",
            !.held = FALSE, !.isDrag = FALSE, !.ran = 0, !.ongoing = FALSE,
            !.cut = FALSE]

\* The direction a gesture of the handle takes, "none" until it is clear.
FromPoints(start, end) ==
    CASE start = end -> "none"
      [] start # end /\ <<start, end>> \in Steep -> "vertical"
      [] start # end /\ <<start, end>> \notin Steep ->
           IF end \in HandlePlaces THEN "horizontal" ELSE "none"

AppId(surface) == IF surface \in DenyFocus THEN NoSurface ELSE surface

MatchingGestures(app, start) ==
    {g \in UserGestures : g.start = start /\ app \in g.apps}

Direction(t) ==
    CASE ~t.handle -> "none"
      [] t.handle /\ t.dir # "none" -> t.dir
      [] t.handle /\ t.dir = "none" -> FromPoints(t.start, t.position)

CompletesGesture(t) ==
    /\ ~Touching(t)
    /\ t.input = NoSurface
    /\ \E g \in MatchingGestures(t.app, t.start) : g.end = t.position

\* The current action, and the touch state that deciding on it leaves behind.
Action(t) ==
    IF Direction(t) # "none"
    THEN [kind |-> "handle", ts |-> [t EXCEPT !.dir = Direction(t)]]
    ELSE IF CompletesGesture(t) THEN [kind |-> "user", ts |-> t]
    ELSE IF t.isDrag \/ t.start # t.position \/ t.held
    THEN [kind |-> "drag", ts |-> [t EXCEPT !.isDrag = TRUE]]
    ELSE IF Touching(t) THEN [kind |-> "none", ts |-> t]
    ELSE [kind |-> IF t.lastTap = t.position THEN "double" ELSE "tap",
          ts |-> [t EXCEPT !.lastTap = NoPlace]]

----------------------------------------------------------------------------
(* What handlers do. *)

\* The drag is reported, and its end once nothing moves any more; at the edge
\* the window manager stops it.
OnDrag(t, edge) ==
    LET dragged == IF edge THEN CancelVelocity(t) ELSE t
    IN  [dragged EXCEPT !.ongoing = Touching(dragged) \/ dragged.velocity]

\* Past its threshold a vertical gesture is completed before it comes to rest.
OnHandleGesture(t, edge) ==
    LET moving == Touching(t) \/ t.velocity
        completed == edge /\ t.dir = "vertical" /\ ~Touching(t)
    IN  IF moving /\ ~completed
        THEN [t EXCEPT !.ongoing = TRUE, !.clients = {}]
        ELSE [CancelVelocity(t) EXCEPT !.ongoing = FALSE, !.clients = {}]

\* The window manager is not told that a drag ends here.
OnUserGesture(t) ==
    [CancelVelocity(t) EXCEPT !.ran = @ + 1, !.cut = t.ongoing, !.clients = {}]

UpdatePosition(t, edge) ==
    LET action == Action(t)
    IN  CASE action.kind = "drag" -> OnDrag(action.ts, edge)
          [] action.kind = "handle" -> OnHandleGesture(action.ts, edge)
          [] action.kind = "user" -> OnUserGesture(action.ts)
          [] action.kind \in {"none", "tap", "double"} -> action.ts

AddVelocityTimeout(t) == IF t.velocity THEN [t EXCEPT !.velocityTimer = TRUE] ELSE t

\* A touch that goes to a surface focuses it, if it takes focus.
OnSurfaceDown(t, surface, slot) ==
    [t EXCEPT !.focus = IF surface \in DenyFocus THEN @ ELSE surface,
              !.clients = @ \cup {slot}]

ReplayIgnoredTap(t, slot) ==
    IF t.tap = NoSurface THEN t
    ELSE [OnSurfaceDown(t, t.tap, slot) EXCEPT !.clients = @ \ {slot}]

ClearFocusOutside(t) == IF t.input = NoSurface THEN [t EXCEPT !.focus = NoSurface] ELSE t

\* Slip: a single tap is cancelled that may not be there.
CancelSingleTapBlindly(t) == [t EXCEPT !.token = FALSE, !.singleTaps = @ - 1]

\* The token names the youngest single tap, be it alive or not.
CancelSingleTap(t) ==
    [t EXCEPT !.token = FALSE,
              !.singleTaps = IF t.token /\ @ > 0 THEN @ - 1 ELSE @]

OnTap(t, slot) ==
    [ReplayIgnoredTap(t, slot) EXCEPT
       !.singleTaps = @ + 1, !.token = TRUE, !.lastTap = t.position]

OnDoubleTap(t, slot) == ClearFocusOutside(ReplayIgnoredTap(CancelSingleTap(t), slot))

----------------------------------------------------------------------------
(* Handlers of events. *)

\* A touch is a gesture's or the surface's it hits, never both's.
TouchDown(slot, place) ==
    \E surface \in SurfaceOrNone :
        LET t == Start(ts, slot, place)
            idle == [t EXCEPT !.input = NoSurface, !.tap = NoSurface,
                              !.app = AppId(surface)]
            gesture == \/ t.handle
                       \/ /\ surface \notin Inhibiting
                          /\ MatchingGestures(AppId(surface), place) # {}
        IN  ts' = IF surface = NoSurface THEN idle
                  ELSE IF gesture THEN [idle EXCEPT !.tap = surface]
                  ELSE OnSurfaceDown([idle EXCEPT !.input = surface], surface, slot)

\* Slip: a touch of a client is done when the client is notified.
TouchUpNotifying(slot) ==
    LET action == Action([ts EXCEPT !.slot = NoSlot])
    IN  IF ts.input # NoSurface THEN ts' = [ts EXCEPT !.clients = @ \ {slot}]
        ELSE IF ts.slot # slot THEN ts' = ts
        ELSE \/ /\ action.kind = "tap"
                /\ ts' = OnTap(action.ts, slot)
             \/ /\ action.kind = "double"
                /\ ts' = OnDoubleTap(action.ts, slot)
             \/ /\ action.kind \in {"drag", "handle", "user"}
                /\ \E edge \in BOOLEAN :
                     ts' = UpdatePosition(AddVelocityTimeout(action.ts), edge)

TouchUp(slot) ==
    LET notified == IF ts.input = NoSurface THEN ts
                    ELSE [ts EXCEPT !.clients = @ \ {slot}]
        action == Action([notified EXCEPT !.slot = NoSlot])
    IN  IF ts.slot # slot THEN ts' = notified
        ELSE \/ /\ action.kind = "tap"
                /\ ts.singleTaps < MaxTaps
                /\ ts' = OnTap(action.ts, slot)
             \/ /\ action.kind = "double"
                /\ ts' = OnDoubleTap(action.ts, slot)
             \/ /\ action.kind \in {"drag", "handle", "user"}
                /\ \E edge \in BOOLEAN :
                     ts' = UpdatePosition(AddVelocityTimeout(action.ts), edge)

TouchMotion(slot, place, velocity) ==
    LET moved == [ts EXCEPT !.velocity = velocity, !.position = place]
    IN  IF ts.input # NoSurface \/ ts.slot # slot THEN ts' = moved
        ELSE \E edge \in BOOLEAN : ts' = UpdatePosition(moved, edge)

\* While the display is off only taps are recognised.
TouchUpWhileOff(event) ==
    LET lifted == [ts EXCEPT !.slot = NoSlot, !.cut = @ \/ (Touching(ts) /\ ts.ongoing)]
        action == Action(lifted)
    IN  IF ts.slot # event.slot THEN ts' = lifted /\ UNCHANGED displayOn
        ELSE /\ ts' = IF action.kind = "tap"
                      THEN [action.ts EXCEPT !.lastTap = event.place]
                      ELSE action.ts
             /\ displayOn' = (displayOn \/ action.kind = "double")

----------------------------------------------------------------------------
(* The backend: events of the touchscreen are queued. *)

Idle == frame = "no"

CanQueue == Len(queue) < MaxEvents

CanTap == ts.singleTaps < MaxTaps

FingerDown(slot, place) ==
    /\ Idle /\ CanQueue
    /\ slot \notin fingers
    /\ fingers' = fingers \cup {slot}
    /\ crowded' = (crowded \/ fingers # {} \/ pressed)
    /\ queue' = Append(queue, Event("down", slot, place))
    /\ UNCHANGED <<ts, frame, displayOn, pressed, dropped>>

FingerUp(slot) ==
    /\ Idle /\ CanQueue
    /\ slot \in fingers
    /\ fingers' = fingers \ {slot}
    /\ queue' = Append(queue, Event("up", slot, ts.position))
    /\ UNCHANGED <<ts, frame, displayOn, pressed, dropped, crowded>>

FingerMotion(slot, place) ==
    /\ Idle /\ CanQueue
    /\ displayOn
    /\ slot \in fingers
    /\ queue' = Append(queue, Event("motion", slot, place))
    /\ UNCHANGED <<ts, frame, displayOn, fingers, pressed, dropped, crowded>>

\* `retain`: the events of the other slots, in their order.
EventsWithout(slot) ==
    LET rest[k \in 0..Len(queue)] ==
          IF k = 0 THEN <<>>
          ELSE IF queue[k].slot = slot THEN rest[k - 1]
          ELSE Append(rest[k - 1], queue[k])
    IN  rest[Len(queue)]

\* A cancelled finger is forgotten in the queue, and nowhere else.
FingerCancel(slot) ==
    /\ Idle
    /\ slot \in fingers
    /\ fingers' = fingers \ {slot}
    /\ dropped' = TRUE
    /\ queue' = IF displayOn THEN EventsWithout(slot) ELSE queue
    /\ UNCHANGED <<ts, frame, displayOn, pressed, crowded>>

TouchFrame ==
    /\ Idle
    /\ queue # <<>>
    /\ CanTap
    /\ frame' = IF displayOn THEN "on" ELSE "off"
    /\ UNCHANGED <<ts, queue, displayOn, fingers, pressed, dropped, crowded>>

Handled ==
    /\ queue' = Tail(queue)
    /\ frame' = IF Len(queue) = 1 THEN "no" ELSE frame
    /\ UNCHANGED <<fingers, pressed, crowded>>

HandleEvent ==
    /\ frame = "on"
    /\ LET event == Head(queue)
       IN  \/ event.ty = "down" /\ TouchDown(event.slot, event.place)
           \/ event.ty = "up" /\ TouchUp(event.slot)
           \/ /\ event.ty = "motion"
              /\ \E velocity \in BOOLEAN :
                   /\ event.place # ts.position => velocity
                   /\ TouchMotion(event.slot, event.place, velocity)
    /\ Handled
    /\ UNCHANGED <<displayOn, dropped>>

HandleEventWhileOff ==
    /\ frame = "off"
    /\ LET event == Head(queue)
       IN  \/ /\ event.ty = "down"
              /\ ts' = Start(ts, event.slot, event.place)
              /\ UNCHANGED <<displayOn, dropped>>
           \/ /\ event.ty = "up"
              /\ TouchUpWhileOff(event)
              /\ dropped' = TRUE
           \/ /\ event.ty = "motion"
              /\ UNCHANGED <<ts, displayOn, dropped>>
    /\ Handled

----------------------------------------------------------------------------
(* The pointer acts as a finger in a slot of its own, without a queue; its *)
(* events are ignored while the display is off.                            *)

PointerPress ==
    /\ Idle
    /\ ~pressed
    /\ pressed' = TRUE
    /\ crowded' = (crowded \/ fingers # {} \/ queue # <<>>)
    /\ IF displayOn THEN TouchDown(PointerSlot, ts.position) ELSE UNCHANGED ts
    /\ UNCHANGED <<queue, frame, displayOn, fingers, dropped>>

PointerRelease ==
    /\ Idle
    /\ pressed
    /\ CanTap
    /\ pressed' = FALSE
    /\ IF displayOn THEN TouchUp(PointerSlot) /\ UNCHANGED dropped
                    ELSE UNCHANGED ts /\ dropped' = TRUE
    /\ UNCHANGED <<queue, frame, displayOn, fingers, crowded>>

\* The position is stored before the motion is handled, which finds no velocity.
PointerMotion(place) ==
    /\ Idle
    /\ displayOn
    /\ IF Touching(ts) THEN TouchMotion(PointerSlot, place, FALSE)
                       ELSE ts' = [ts EXCEPT !.position = place]
    /\ UNCHANGED <<queue, frame, displayOn, fingers, pressed, dropped, crowded>>

----------------------------------------------------------------------------
(* Timers and time. *)

Quiet == Idle /\ UNCHANGED <<queue, frame, fingers, pressed, dropped, crowded>>

\* Velocity decays to a halt; until then it moves the touch.
VelocityTick ==
    /\ Quiet
    /\ ts.velocityTimer
    /\ \E velocity \in BOOLEAN, place \in Places, edge \in BOOLEAN :
         /\ velocity => ts.velocity
         /\ ~velocity => place = ts.position
         /\ LET ticked == UpdatePosition([ts EXCEPT !.velocity = velocity,
                                                    !.position = place], edge)
            IN  ts' = [ticked EXCEPT !.velocityTimer = ticked.velocity]
    /\ UNCHANGED displayOn

\* The youngest single tap is due once it is too late for a double tap.
SingleTap ==
    /\ Quiet
    /\ ts.singleTaps > 1 \/ (ts.singleTaps = 1 /\ ts.lastTap = NoPlace)
    /\ ts' = [ClearFocusOutside(ts) EXCEPT !.singleTaps = @ - 1]
    /\ UNCHANGED displayOn

TapExpires ==
    /\ Quiet
    /\ ts.lastTap # NoPlace
    /\ ts' = [ts EXCEPT !.lastTap = NoPlace]
    /\ UNCHANGED displayOn

HoldPasses ==
    /\ Quiet
    /\ Touching(ts) /\ ~ts.held
    /\ ts' = [ts EXCEPT !.held = TRUE]
    /\ UNCHANGED displayOn

SetDisplayStatus ==
    /\ Quiet
    /\ displayOn' = ~displayOn
    /\ UNCHANGED ts

TouchNext ==
    \/ \E slot \in Slots, place \in Places : FingerDown(slot, place)
    \/ \E slot \in Slots : FingerUp(slot)
    \/ \E slot \in Slots, place \in Places : FingerMotion(slot, place)
    \/ \E slot \in Slots : FingerCancel(slot)
    \/ TouchFrame
    \/ HandleEvent
    \/ HandleEventWhileOff
    \/ HasPointer /\ PointerPress
    \/ HasPointer /\ PointerRelease
    \/ HasPointer /\ \E place \in Places : PointerMotion(place)
    \/ VelocityTick
    \/ SingleTap
    \/ TapExpires
    \/ HoldPasses
    \/ SetDisplayStatus

TouchSpec == TouchInit /\ [][TouchNext]_touchVars

----------------------------------------------------------------------------
(* Properties. *)

\* The state of touch input has its type.
TouchTypeOK ==
    /\ ts \in TouchStates
    /\ queue \in Seq(Events)
    /\ frame \in {"no", "on", "off"}
    /\ displayOn \in BOOLEAN
    /\ fingers \subseteq Slots
    /\ pressed \in BOOLEAN
    /\ dropped \in BOOLEAN
    /\ crowded \in BOOLEAN

\* Slots whose finger is down, as far as the handlers can know.
Present ==
    fingers \cup (IF pressed THEN {PointerSlot} ELSE {})
            \cup {queue[k].slot : k \in {j \in DOMAIN queue : queue[j].ty = "up"}}

\* The active slot belongs to a finger that is there: a slot that stays taken
\* would invalidate the next touch.  Cancelled touches and pointer releases
\* while the display is off are the exceptions.
SlotHasFinger == Touching(ts) => dropped \/ ts.slot \in Present

\* The velocity of an earlier touch never acts on the current one: start()
\* stops the timer whatever the display and the earlier touch are doing.
NoCoastingTouch == Touching(ts) => ~ts.velocityTimer

\* A drag or gesture whose finger is gone is still driven by the timer until
\* the window manager is told of its end, or it was cut off: nothing drives it
\* any more then, and the window manager keeps it as it was left until a touch
\* outside the handle resets the overview's (on_touch_start), or the next drag
\* ends and drops the window that is dragged.
UnfinishedHasTimer == ts.ongoing /\ ~Touching(ts) => ts.velocityTimer = ~ts.cut

\* A gesture of the user runs once for a touch: the velocity timer is added
\* before it runs, and would run it again if it did not stop the velocity (NOTE
\* at update_position); a drag that coasts on may still complete one.
GestureRunsOnce == ts.ran <= 1 /\ (ts.ran = 1 => ~ts.velocityTimer)

\* The velocity of a touch acts after the touch and on nothing else, until its
\* drag or gesture is done or cut off, and a gesture of the user it drives runs
\* once.
VelocityEnds == NoCoastingTouch /\ UnfinishedHasTimer /\ GestureRunsOnce

\* A client that was told of a touch is told of its end, when there was one
\* finger at a time and its release was handled.
ClientsReleased == crowded \/ dropped \/ ts.clients \subseteq Present

\* What a touch took is given back and what it began is ended, whichever other
\* finger, timer or display switch comes between its press and its release.
TouchesEnd == SlotHasFinger /\ ClientsReleased

=============================================================================
