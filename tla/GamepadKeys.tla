----------------------------- MODULE GamepadKeys -----------------------------
(***************************************************************************)
(* Keys of the keyboard and keys simulated for the gamepad, and the key    *)
(* bindings of the user (src/input/mod.rs).  While a system application    *)
(* (home, nav, settings) is active, the stick and the buttons of the       *)
(* gamepad press keys; `mappedStick` and `mappedButtons` remember which to *)
(* release.  Every key goes through handle_user_binding, which keeps       *)
(* `active`, the keys that bindings are compared with, and the token of    *)
(* one timer: when several bindings repeat for the same keys each has a    *)
(* timer, and the token of the last is kept (`leaked` counts the others).  *)
(*                                                                         *)
(* Which window is active changes at any time; whether it inhibits         *)
(* shortcuts is read from `lastFocus`, which follows with the next frame.  *)
(* A key of the stick is the pair of an axis and a direction.              *)
(***************************************************************************)
EXTENDS Integers, FiniteSets

CONSTANTS
    Apps,           \* windows that may be active
    NoApp,          \* no window is, and there is no title
    SystemApps,     \* those that match the role home, nav or settings
    InhibitingApps, \* those whose surface inhibits shortcuts
    Axes,           \* of the left stick
    Buttons,        \* d-pad, South and East
    Triggers,       \* shoulder buttons, which click instead of being held
    KeyOf,          \* the key of a button or trigger
    KeyboardKeys,   \* keys of the keyboard, BtnMode among them for code 324
    VtKeys,         \* those that switch virtual terminals
    BtnMode,        \* Keysym::BtnMode
    Bindings,       \* key bindings [keys, apps, trigger]
    MaxLeaked       \* bound: timers that were forgotten

Directions == {-1, 1}

StickKeys == Axes \X Directions
PadKeys == StickKeys \cup {KeyOf[b] : b \in Buttons \cup Triggers}
Keys == PadKeys \cup KeyboardKeys \cup {BtnMode}

ASSUME GamepadAssumption ==
    /\ NoApp \notin Apps
    /\ SystemApps \cup InhibitingApps \subseteq Apps
    /\ VtKeys \subseteq KeyboardKeys
    /\ BtnMode \notin VtKeys \cup PadKeys
    /\ PadKeys \cap KeyboardKeys = {}
    /\ IsFiniteSet(Bindings)
    /\ MaxLeaked \in Nat
    /\ Bindings \subseteq [keys : SUBSET Keys, apps : SUBSET (Apps \cup {NoApp}),
                           trigger : {"press", "release", "repeat"}]

VARIABLES
    pad,        \* what is held on the gamepad: buttons, mode, stick
    typed,      \* keys held on the keyboard
    ks,         \* what the compositor knows of keys, see TypeOK
    active,     \* the active window
    lastFocus,  \* the window that has the keyboard focus
    missed,     \* history: axes whose last change was not handled
    strays,     \* history: keys released behind the back of bindings
    unplugged   \* history: a gamepad was taken away

vars == <<pad, typed, ks, active, lastFocus, missed, strays, unplugged>>

Init ==
    /\ pad = [held |-> {}, mode |-> FALSE, stick |-> [axis \in Axes |-> 0]]
    /\ typed = {}
    /\ ks = [pressed |-> {}, active |-> {}, mappedButtons |-> {},
             mappedStick |-> {}, repeats |-> 0, token |-> FALSE, leaked |-> 0]
    /\ active = NoApp
    /\ lastFocus = NoApp
    /\ missed = {}
    /\ strays = {}
    /\ unplugged = FALSE

----------------------------------------------------------------------------
(* Keys and their bindings: from a `ks` to a `ks`. *)

\* Slip: a timer is cancelled that may not be there.
CancelKeyRepeatBlindly(k) == [k EXCEPT !.token = FALSE, !.repeats = @ - 1]

CancelKeyRepeat(k) ==
    [k EXCEPT !.token = FALSE, !.repeats = IF k.token THEN @ - 1 ELSE @]

Inhibited(key) == lastFocus \in InhibitingApps /\ key # BtnMode

\* Bindings that match: a release is compared with the keys before it.
Matching(keys, isPress) ==
    {b \in Bindings : /\ b.keys = keys
                      /\ active \in b.apps
                      /\ (b.trigger # "release") = isPress}

\* Each binding that repeats adds a timer; only the last is remembered.
RunBindings(k, isPress) ==
    LET repeating == {b \in Matching(k.active, isPress) : b.trigger = "repeat"}
    IN  IF repeating = {} THEN k
        ELSE [k EXCEPT !.repeats = @ + Cardinality(repeating), !.token = TRUE,
                       !.leaked = @ + Cardinality(repeating) - 1]

HandleUserBinding(k, key, isPress) ==
    LET quiet == CancelKeyRepeat(k)
        known == IF isPress THEN [quiet EXCEPT !.active = @ \cup {key}] ELSE quiet
        run == RunBindings(known, isPress)
    IN  IF Inhibited(key) THEN quiet
        ELSE IF isPress THEN run
        ELSE [run EXCEPT !.active = @ \ {key}]

\* The keyboard notes the key before it asks what to do with it; keys that
\* switch terminals are no one's binding.
OnKeyboardInput(k, key, isPress) ==
    LET noted == [k EXCEPT !.pressed = IF isPress THEN @ \cup {key} ELSE @ \ {key}]
    IN  IF key \in VtKeys THEN noted ELSE HandleUserBinding(noted, key, isPress)

Press(k, key) == OnKeyboardInput(k, key, TRUE)
Release(k, key) == OnKeyboardInput(k, key, FALSE)

----------------------------------------------------------------------------
(* The gamepad. *)

AllowKeyMapping == active \in SystemApps

StickPress(k, key) ==
    IF key \in k.mappedStick THEN k
    ELSE Press([k EXCEPT !.mappedStick = @ \cup {key}], key)

\* Slip: the key is forgotten without a release.
StickForget(k, key) == [k EXCEPT !.mappedStick = @ \ {key}]

StickRelease(k, key) ==
    IF key \in k.mappedStick
    THEN Release([k EXCEPT !.mappedStick = @ \ {key}], key)
    ELSE k

AxisChanged(k, axis, dir) ==
    IF dir = 0 THEN StickRelease(StickRelease(k, <<axis, -1>>), <<axis, 1>>)
    ELSE StickRelease(StickPress(k, <<axis, dir>>), <<axis, -dir>>)

\* Keys that lose their release to an inhibiting surface stay active.
Stray(released) ==
    strays' = {key \in ks'.active \ ks'.pressed :
                 key \in strays \/ (key \in released /\ Inhibited(key))}

MoveStick(axis, dir) ==
    /\ pad.stick[axis] # dir
    /\ pad' = [pad EXCEPT !.stick[axis] = dir]
    /\ IF AllowKeyMapping
       THEN /\ ks' = AxisChanged(ks, axis, dir)
            /\ missed' = missed \ {axis}
       ELSE /\ UNCHANGED ks
            /\ missed' = missed \cup {axis}
    /\ Stray(ks.mappedStick)
    /\ UNCHANGED <<typed, active, lastFocus, unplugged>>

ButtonPressed(button) ==
    /\ button \notin pad.held
    /\ pad' = [pad EXCEPT !.held = @ \cup {button}]
    /\ ks' = IF AllowKeyMapping
             THEN [Press(ks, KeyOf[button]) EXCEPT !.mappedButtons = @ \cup {button}]
             ELSE ks
    /\ Stray({})
    /\ UNCHANGED <<typed, active, lastFocus, missed, unplugged>>

\* Slip: releases are mapped only while presses are.
ButtonReleasedIfAllowed(button) ==
    /\ button \in pad.held
    /\ pad' = [pad EXCEPT !.held = @ \ {button}]
    /\ ks' = IF AllowKeyMapping /\ button \in ks.mappedButtons
             THEN Release([ks EXCEPT !.mappedButtons = @ \ {button}], KeyOf[button])
             ELSE ks
    /\ Stray({KeyOf[button]})
    /\ UNCHANGED <<typed, active, lastFocus, missed, unplugged>>

\* The release of a mapped button is handled whatever is active by then.
ButtonReleased(button) ==
    /\ button \in pad.held
    /\ pad' = [pad EXCEPT !.held = @ \ {button}]
    /\ ks' = IF button \in ks.mappedButtons
             THEN Release([ks EXCEPT !.mappedButtons = @ \ {button}], KeyOf[button])
             ELSE ks
    /\ Stray({KeyOf[button]})
    /\ UNCHANGED <<typed, active, lastFocus, missed, unplugged>>

\* A trigger clicks when it is pressed and is never mapped.
TriggerPressed(trigger) ==
    /\ trigger \notin pad.held
    /\ pad' = [pad EXCEPT !.held = @ \cup {trigger}]
    /\ ks' = IF AllowKeyMapping
             THEN Release(Press(ks, KeyOf[trigger]), KeyOf[trigger])
             ELSE ks
    /\ Stray({KeyOf[trigger]})
    /\ UNCHANGED <<typed, active, lastFocus, missed, unplugged>>

\* Mode toggles the overlay, which activates some window, if it is running.
ModePressed(app, toggled) ==
    /\ ~pad.mode
    /\ pad' = [pad EXCEPT !.mode = TRUE]
    /\ IF toggled THEN active' = app /\ UNCHANGED ks
       ELSE UNCHANGED active /\ ks' = HandleUserBinding(ks, BtnMode, TRUE)
    /\ UNCHANGED <<typed, lastFocus, missed, strays, unplugged>>

ModeReleased ==
    /\ pad.mode
    /\ pad' = [pad EXCEPT !.mode = FALSE]
    /\ ks' = IF active \notin SystemApps \cup {NoApp}
             THEN HandleUserBinding(ks, BtnMode, FALSE)
             ELSE ks
    /\ UNCHANGED <<typed, active, lastFocus, missed, strays, unplugged>>

\* A gamepad that goes away takes its releases with it.
Unplug ==
    /\ pad' = [held |-> {}, mode |-> FALSE, stick |-> [axis \in Axes |-> 0]]
    /\ pad # pad'
    /\ unplugged' = TRUE
    /\ missed' = missed \cup {axis \in Axes : pad.stick[axis] # 0}
    /\ UNCHANGED <<typed, ks, active, lastFocus, strays>>

----------------------------------------------------------------------------
(* The keyboard, and the windows. *)

KeyPressed(key) ==
    /\ key \notin typed
    /\ typed' = typed \cup {key}
    /\ ks' = Press(ks, key)
    /\ Stray({})
    /\ UNCHANGED <<pad, active, lastFocus, missed, unplugged>>

KeyReleased(key) ==
    /\ key \in typed
    /\ typed' = typed \ {key}
    /\ ks' = Release(ks, key)
    /\ Stray({key})
    /\ UNCHANGED <<pad, active, lastFocus, missed, unplugged>>

Focus(app) ==
    /\ app # active
    /\ active' = app
    /\ UNCHANGED <<pad, typed, ks, lastFocus, missed, strays, unplugged>>

CreateFrame ==
    /\ lastFocus # active
    /\ lastFocus' = active
    /\ UNCHANGED <<pad, typed, ks, active, missed, strays, unplugged>>

Next ==
    \/ /\ ks.leaked < MaxLeaked
       /\ \/ \E axis \in Axes, dir \in Directions \cup {0} : MoveStick(axis, dir)
          \/ \E button \in Buttons : ButtonPressed(button)
          \/ \E button \in Buttons \cup Triggers : ButtonReleased(button)
          \/ \E trigger \in Triggers : TriggerPressed(trigger)
          \/ \E app \in Apps, toggled \in BOOLEAN : ModePressed(app, toggled)
          \/ ModeReleased
          \/ \E key \in KeyboardKeys : KeyPressed(key)
          \/ \E key \in KeyboardKeys : KeyReleased(key)
    \/ Unplug
    \/ \E app \in Apps \cup {NoApp} : Focus(app)
    \/ CreateFrame

Spec == Init /\ [][Next]_vars

----------------------------------------------------------------------------
(* Properties. *)

\* The state of keys and gamepad has its type.
TypeOK ==
    /\ pad \in [held : SUBSET (Buttons \cup Triggers), mode : BOOLEAN,
                stick : [Axes -> Directions \cup {0}]]
    /\ typed \subseteq KeyboardKeys
    /\ ks \in [pressed : SUBSET Keys, active : SUBSET Keys,
               mappedButtons : SUBSET Buttons, mappedStick : SUBSET StickKeys,
               repeats : Nat, token : BOOLEAN, leaked : Nat]
    /\ {active, lastFocus} \subseteq Apps \cup {NoApp}
    /\ missed \subseteq Axes
    /\ strays \subseteq Keys
    /\ unplugged \in BOOLEAN

\* A button is mapped no longer than it is held, whatever window is activated
\* between its press and its release.
MappedButtonsHeld == unplugged \/ ks.mappedButtons \subseteq pad.held

\* The mapped keys of an axis are those of its direction, unless its last
\* change came while a window without key mapping was active; even then it
\* never holds both directions.
StickFollowed ==
    \A axis \in Axes :
        LET mapped == {dir \in Directions : <<axis, dir>> \in ks.mappedStick}
        IN  /\ mapped # Directions
            /\ axis \notin missed => mapped = {pad.stick[axis]} \ {0}

\* What is mapped follows the gamepad, not the window that happens to be active.
MappingFollowsPad == MappedButtonsHeld /\ StickFollowed

\* No key is held down in the keyboard without something mapped or typed that
\* will release it.
PressedHasSource ==
    ks.pressed \subseteq ks.mappedStick \cup {KeyOf[b] : b \in ks.mappedButtons}
                           \cup typed

\* Bindings are compared with the keys that are pressed: what else is active
\* was released under a surface that inhibits shortcuts.
ActiveKeysPressed == ks.active \subseteq ks.pressed \cup strays \cup {BtnMode}

\* A binding repeats no longer than its keys are the ones that are active, except
\* for those that repeat for the same keys as another: the timers of all but the
\* last of them, and no others, are lost, and go on until the session ends.
RepeatHasKeys ==
    /\ ks.repeats = ks.leaked + (IF ks.token THEN 1 ELSE 0)
    /\ ks.token => \E b \in Bindings : b.trigger = "repeat" /\ b.keys = ks.active

\* No key is pressed, compared with bindings or, unless its timer was lost,
\* repeated for longer than what causes it, whichever of two sources of the key is
\* released first.
KeysHaveSource == PressedHasSource /\ ActiveKeysPressed /\ RepeatHasKeys

=============================================================================
