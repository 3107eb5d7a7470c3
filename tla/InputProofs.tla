---------------------------- MODULE InputProofs -----------------------------
(***************************************************************************)
(* Proofs about input: GamepadKeys for any gamepad, keyboard and bindings, *)
(* TouchInput for any slots, surfaces and gestures.                        *)
(*                                                                         *)
(* GamepadKeys: a mapped button is held, the mapped keys of the stick      *)
(* follow it, and what is pressed, active or repeating has a source.  The  *)
(* type alone is not inductive: the count of repeating timers is taken     *)
(* down by one when there is a token, so a token has to mean that there is *)
(* a timer (TokenHasTimer).  Every key cancels what repeats before it runs *)
(* bindings, so that timers are lost only there (OneRepeat).               *)
(*                                                                         *)
(* TouchInput: velocity ends (GoodTouch), because a drag or gesture that   *)
(* has begun decides what the release of its finger means (OngoingMoved);  *)
(* and touches end (SlotInv), which is about the events that are queued as *)
(* much as about the slot.                                                 *)
(***************************************************************************)
EXTENDS GamepadKeys, TouchInput, TLAPS, FiniteSetTheorems, WellFoundedInduction

----------------------------------------------------------------------------
(* GamepadKeys. *)

KeyStates ==
    [pressed : SUBSET Keys, active : SUBSET Keys,
     mappedButtons : SUBSET Buttons, mappedStick : SUBSET StickKeys,
     repeats : Nat, token : BOOLEAN, leaked : Nat]

TokenHasTimer(k) == k.token => k.repeats > 0

Sound(k) == k \in KeyStates /\ TokenHasTimer(k)

SameMaps(k, l) == l.mappedStick = k.mappedStick /\ l.mappedButtons = k.mappedButtons

\* The two parts of StickFollowed: what holds of every axis, and what holds of
\* those whose last change was handled.
OneDirection ==
    \A axis \in Axes : ~ {<<axis, -1>>, <<axis, 1>>} \subseteq ks.mappedStick

KeysFollowed ==
    \A axis \in Axes \ missed :
        {dir \in Directions : <<axis, dir>> \in ks.mappedStick}
          = {pad.stick[axis]} \ {0}

IInv == TypeOK /\ TokenHasTimer(ks) /\ MappedButtonsHeld /\ OneDirection /\ KeysFollowed

----------------------------------------------------------------------------
(* Keys leave the maps alone. *)

LEMMA CancelSound ==
    ASSUME NEW k, Sound(k)
    PROVE  LET l == CancelKeyRepeat(k)
           IN Sound(l) /\ SameMaps(k, l) /\ l.active = k.active
<1>1. CASE k.token
  <2>1. CancelKeyRepeat(k) = [k EXCEPT !.token = FALSE, !.repeats = k.repeats - 1]
    BY <1>1 DEF CancelKeyRepeat
  <2>2. k \in KeyStates /\ k.repeats \in Nat /\ k.repeats > 0
    BY <1>1 DEF Sound, TokenHasTimer, KeyStates
  <2>3. k.repeats - 1 \in Nat
    BY <2>2
  <2> QED BY <2>1, <2>2, <2>3 DEF Sound, TokenHasTimer, KeyStates, SameMaps
<1>2. CASE ~k.token
  <2>1. CancelKeyRepeat(k) = [k EXCEPT !.token = FALSE, !.repeats = k.repeats]
    BY <1>2 DEF CancelKeyRepeat
  <2> QED BY <2>1, <1>2 DEF Sound, TokenHasTimer, KeyStates, SameMaps
<1> QED BY <1>1, <1>2

LEMMA BindingsSound ==
    ASSUME NEW k, Sound(k), NEW isPress \in BOOLEAN
    PROVE  LET l == RunBindings(k, isPress)
           IN Sound(l) /\ SameMaps(k, l) /\ l.active = k.active
<1> DEFINE repeating == {b \in Matching(k.active, isPress) : b.trigger = "repeat"}
<1>1. IsFiniteSet(repeating)
  <2>1. repeating \subseteq Bindings
    BY DEF Matching
  <2> QED BY <2>1, GamepadAssumption, FS_Subset DEF GamepadAssumption
<1>2. Cardinality(repeating) \in Nat
  BY <1>1, FS_CardinalityType
<1>3. repeating # {} => Cardinality(repeating) > 0
  BY <1>1, <1>2, FS_EmptySet
<1>4. CASE repeating = {}
  <2>1. RunBindings(k, isPress) = k
    BY <1>4 DEF RunBindings
  <2> QED BY <2>1 DEF SameMaps
<1>5. CASE repeating # {}
  <2> DEFINE n == Cardinality(repeating)
  <2>1. RunBindings(k, isPress) = [k EXCEPT !.repeats = k.repeats + n, !.token = TRUE,
                                            !.leaked = k.leaked + n - 1]
    BY <1>5 DEF RunBindings
  <2> HIDE DEF repeating
  <2>2. n \in Nat /\ n > 0
    BY <1>2, <1>3, <1>5
  <2> HIDE DEF n
  <2>3. k \in KeyStates /\ k.repeats \in Nat /\ k.leaked \in Nat
    BY DEF Sound, KeyStates
  <2>4. k.repeats + n \in Nat /\ k.repeats + n > 0 /\ k.leaked + n - 1 \in Nat
    BY <2>2, <2>3
  <2> QED BY <2>1, <2>3, <2>4 DEF Sound, TokenHasTimer, KeyStates, SameMaps
<1> QED BY <1>4, <1>5

LEMMA HandleSound ==
    ASSUME NEW k, Sound(k), NEW key \in Keys, NEW isPress \in BOOLEAN
    PROVE  LET l == HandleUserBinding(k, key, isPress)
           IN Sound(l) /\ SameMaps(k, l)
<1> DEFINE quiet == CancelKeyRepeat(k)
           known == IF isPress THEN [quiet EXCEPT !.active = @ \cup {key}] ELSE quiet
           run == RunBindings(known, isPress)
<1>1. Sound(quiet) /\ SameMaps(k, quiet)
  BY CancelSound
<1>2. HandleUserBinding(k, key, isPress)
        = IF Inhibited(key) THEN quiet
          ELSE IF isPress THEN run ELSE [run EXCEPT !.active = @ \ {key}]
  BY DEF HandleUserBinding
<1> HIDE DEF quiet
<1>3. Sound(known) /\ SameMaps(k, known)
  BY <1>1 DEF Sound, TokenHasTimer, KeyStates, SameMaps
<1> HIDE DEF known
<1>4. Sound(run) /\ SameMaps(k, run)
  BY <1>3, BindingsSound DEF SameMaps
<1> HIDE DEF run
<1> QED BY <1>1, <1>2, <1>4 DEF Sound, TokenHasTimer, KeyStates, SameMaps

LEMMA KeySound ==
    ASSUME NEW k, Sound(k), NEW key \in Keys, NEW isPress \in BOOLEAN
    PROVE  LET l == OnKeyboardInput(k, key, isPress)
           IN Sound(l) /\ SameMaps(k, l)
<1> DEFINE noted == [k EXCEPT !.pressed = IF isPress THEN @ \cup {key} ELSE @ \ {key}]
<1>1. Sound(noted) /\ SameMaps(k, noted)
  BY DEF Sound, TokenHasTimer, KeyStates, SameMaps
<1>2. OnKeyboardInput(k, key, isPress)
        = IF key \in VtKeys THEN noted ELSE HandleUserBinding(noted, key, isPress)
  BY DEF OnKeyboardInput
<1> HIDE DEF noted
<1> QED BY <1>1, <1>2, HandleSound DEF SameMaps

----------------------------------------------------------------------------
(* The stick. *)

LEMMA StickPressSound ==
    ASSUME NEW k, Sound(k), NEW key \in StickKeys
    PROVE  LET l == StickPress(k, key)
           IN /\ Sound(l)
              /\ l.mappedStick = k.mappedStick \cup {key}
              /\ l.mappedButtons = k.mappedButtons
<1> DEFINE mapped == [k EXCEPT !.mappedStick = @ \cup {key}]
<1>1. /\ Sound(mapped)
      /\ mapped.mappedStick = k.mappedStick \cup {key}
      /\ mapped.mappedButtons = k.mappedButtons
  BY DEF Sound, TokenHasTimer, KeyStates
<1>2. StickPress(k, key) = IF key \in k.mappedStick THEN k ELSE Press(mapped, key)
  BY DEF StickPress
<1>3. key \in Keys
  BY DEF Keys, PadKeys
<1> HIDE DEF mapped
<1>4. Sound(Press(mapped, key)) /\ SameMaps(mapped, Press(mapped, key))
  BY <1>1, <1>3, KeySound DEF Press
<1> QED BY <1>1, <1>2, <1>4 DEF SameMaps

LEMMA StickReleaseSound ==
    ASSUME NEW k, Sound(k), NEW key \in StickKeys
    PROVE  LET l == StickRelease(k, key)
           IN /\ Sound(l)
              /\ l.mappedStick = k.mappedStick \ {key}
              /\ l.mappedButtons = k.mappedButtons
<1> DEFINE mapped == [k EXCEPT !.mappedStick = @ \ {key}]
<1>1. /\ Sound(mapped)
      /\ mapped.mappedStick = k.mappedStick \ {key}
      /\ mapped.mappedButtons = k.mappedButtons
  BY DEF Sound, TokenHasTimer, KeyStates
<1>2. StickRelease(k, key) = IF key \in k.mappedStick THEN Release(mapped, key) ELSE k
  BY DEF StickRelease
<1>3. key \in Keys
  BY DEF Keys, PadKeys
<1> HIDE DEF mapped
<1>4. Sound(Release(mapped, key)) /\ SameMaps(mapped, Release(mapped, key))
  BY <1>1, <1>3, KeySound DEF Release
<1> QED BY <1>1, <1>2, <1>4 DEF SameMaps

LEMMA AxisSound ==
    ASSUME NEW k, Sound(k), NEW axis \in Axes, NEW dir \in Directions \cup {0}
    PROVE  LET l == AxisChanged(k, axis, dir)
           IN /\ Sound(l)
              /\ l.mappedButtons = k.mappedButtons
              /\ l.mappedStick = (k.mappedStick \ {<<axis, -1>>, <<axis, 1>>})
                                   \cup {<<axis, d>> : d \in {dir} \ {0}}
<1>1. <<axis, -1>> \in StickKeys /\ <<axis, 1>> \in StickKeys
  BY DEF StickKeys, Directions
<1>2. CASE dir = 0
  <2> DEFINE m == StickRelease(k, <<axis, -1>>)
             l == StickRelease(m, <<axis, 1>>)
  <2>1. /\ Sound(m)
        /\ m.mappedStick = k.mappedStick \ {<<axis, -1>>}
        /\ m.mappedButtons = k.mappedButtons
    BY <1>1, StickReleaseSound
  <2>2. AxisChanged(k, axis, dir) = l
    BY <1>2 DEF AxisChanged
  <2> HIDE DEF m
  <2>3. /\ Sound(l)
        /\ l.mappedStick = m.mappedStick \ {<<axis, 1>>}
        /\ l.mappedButtons = m.mappedButtons
    BY <1>1, <2>1, StickReleaseSound
  <2> HIDE DEF l
  <2> QED BY <1>2, <2>1, <2>2, <2>3
<1>3. CASE dir # 0
  <2> DEFINE m == StickPress(k, <<axis, dir>>)
             l == StickRelease(m, <<axis, -dir>>)
  <2>1. dir \in {-1, 1} /\ -dir \in {-1, 1} /\ dir # -dir
    BY <1>3 DEF Directions
  <2>2. /\ Sound(m)
        /\ m.mappedStick = k.mappedStick \cup {<<axis, dir>>}
        /\ m.mappedButtons = k.mappedButtons
    BY <1>1, <2>1, StickPressSound
  <2>3. AxisChanged(k, axis, dir) = l
    BY <1>3 DEF AxisChanged
  <2> HIDE DEF m
  <2>4. /\ Sound(l)
        /\ l.mappedStick = m.mappedStick \ {<<axis, -dir>>}
        /\ l.mappedButtons = m.mappedButtons
    BY <1>1, <2>1, <2>2, StickReleaseSound
  <2>5. {<<axis, -1>>, <<axis, 1>>} = {<<axis, dir>>, <<axis, -dir>>}
    BY <2>1
  <2>6. {<<axis, d>> : d \in {dir} \ {0}} = {<<axis, dir>>}
    BY <1>3
  <2>7. <<axis, dir>> # <<axis, -dir>>
    BY <2>1
  <2> HIDE DEF l
  <2> QED BY <2>2, <2>3, <2>4, <2>5, <2>6, <2>7
<1> QED BY <1>2, <1>3

----------------------------------------------------------------------------
(* The invariant. *)

LEMMA KnownKeys ==
    /\ \A b \in Buttons \cup Triggers : KeyOf[b] \in Keys
    /\ KeyboardKeys \subseteq Keys
    /\ BtnMode \in Keys
BY DEF Keys, PadKeys

\* What an action has to show when it leaves the stick and its keys alone.
LEMMA UntouchedStick ==
    ASSUME IInv,
           ks' \in KeyStates, ks'.mappedStick = ks.mappedStick,
           pad'.stick = pad.stick, UNCHANGED missed
    PROVE  OneDirection' /\ KeysFollowed'
BY DEF IInv, OneDirection, KeysFollowed

LEMMA StraysTyped ==
    ASSUME Sound(ks'), NEW released, Stray(released)
    PROVE  strays' \subseteq Keys
BY DEF Sound, KeyStates, Stray

LEMMA SoundNow == IInv => Sound(ks)
BY DEF IInv, TypeOK, Sound, KeyStates

LEMMA InitIInv == Init => IInv
<1> SUFFICES ASSUME Init PROVE IInv
  OBVIOUS
<1>1. TypeOK
  BY DEF Init, TypeOK
<1>2. TokenHasTimer(ks) /\ MappedButtonsHeld /\ OneDirection
  BY DEF Init, TokenHasTimer, MappedButtonsHeld, OneDirection
<1>3. KeysFollowed
  <2> SUFFICES ASSUME NEW axis \in Axes
               PROVE  {dir \in Directions : <<axis, dir>> \in ks.mappedStick}
                        = {pad.stick[axis]} \ {0}
    BY DEF KeysFollowed
  <2> QED BY DEF Init
<1> QED BY <1>1, <1>2, <1>3 DEF IInv

LEMMA MoveStickStep ==
    ASSUME IInv, NEW axis \in Axes, NEW dir \in Directions \cup {0}, MoveStick(axis, dir)
    PROVE  IInv'
<1>1. Sound(ks)
  BY SoundNow
<1>2. /\ pad.stick \in [Axes -> Directions \cup {0}]
      /\ pad' = [pad EXCEPT !.stick[axis] = dir]
      /\ UNCHANGED <<typed, active, lastFocus, unplugged>>
  BY DEF IInv, TypeOK, MoveStick
<1>3. /\ pad' \in [held : SUBSET (Buttons \cup Triggers), mode : BOOLEAN,
                   stick : [Axes -> Directions \cup {0}]]
      /\ pad'.held = pad.held
      /\ pad'.stick = [pad.stick EXCEPT ![axis] = dir]
  BY <1>2 DEF IInv, TypeOK
<1>4. CASE AllowKeyMapping
  <2>1. /\ ks' = AxisChanged(ks, axis, dir)
        /\ missed' = missed \ {axis}
    BY <1>4 DEF MoveStick
  <2>2. /\ Sound(ks')
        /\ ks'.mappedButtons = ks.mappedButtons
        /\ ks'.mappedStick = (ks.mappedStick \ {<<axis, -1>>, <<axis, 1>>})
                               \cup {<<axis, d>> : d \in {dir} \ {0}}
    BY <1>1, <2>1, AxisSound
  <2>3. strays' \subseteq Keys
    BY <2>2, StraysTyped DEF MoveStick
  <2>4. TypeOK'
    BY <1>2, <1>3, <2>1, <2>2, <2>3 DEF IInv, TypeOK, Sound, KeyStates
  <2>5. MappedButtonsHeld' /\ TokenHasTimer(ks')
    BY <1>2, <1>3, <2>2 DEF IInv, MappedButtonsHeld, Sound
  <2>6. ASSUME NEW other \in Axes, other # axis, NEW d \in Directions
        PROVE  <<other, d>> \in ks'.mappedStick <=> <<other, d>> \in ks.mappedStick
    BY <2>2, <2>6
  <2>7. ASSUME NEW d \in Directions
        PROVE  <<axis, d>> \in ks'.mappedStick <=> d \in {dir} \ {0}
    BY <2>2, <2>7 DEF Directions
  <2>8. OneDirection'
    <3> SUFFICES ASSUME NEW other \in Axes
                 PROVE  ~ (<<other, -1>> \in ks'.mappedStick /\ <<other, 1>> \in ks'.mappedStick)
      BY DEF OneDirection
    <3>1. CASE other = axis
      BY <2>7, <3>1 DEF Directions
    <3>2. CASE other # axis
      BY <2>6, <3>2 DEF IInv, OneDirection, Directions
    <3> QED BY <3>1, <3>2
  <2>9. KeysFollowed'
    <3> SUFFICES ASSUME NEW other \in Axes \ missed'
                 PROVE  {d \in Directions : <<other, d>> \in ks'.mappedStick}
                          = {pad'.stick[other]} \ {0}
      BY DEF KeysFollowed
    <3>1. CASE other = axis
      <4>1. pad'.stick[other] = dir
        BY <1>2, <1>3, <3>1
      <4> QED BY <2>7, <3>1, <4>1
    <3>2. CASE other # axis
      <4>1. pad'.stick[other] = pad.stick[other] /\ other \in Axes \ missed
        BY <1>2, <1>3, <2>1, <3>2
      <4>2. {d \in Directions : <<other, d>> \in ks.mappedStick} = {pad.stick[other]} \ {0}
        BY <4>1 DEF IInv, KeysFollowed
      <4> QED BY <2>6, <3>2, <4>1, <4>2
    <3> QED BY <3>1, <3>2
  <2> QED BY <2>4, <2>5, <2>8, <2>9 DEF IInv
<1>5. CASE ~AllowKeyMapping
  <2>1. ks' = ks /\ missed' = missed \cup {axis}
    BY <1>5 DEF MoveStick
  <2>2. strays' \subseteq Keys
    BY <1>1, <2>1, StraysTyped DEF MoveStick
  <2>3. TypeOK'
    BY <1>2, <1>3, <2>1, <2>2 DEF IInv, TypeOK
  <2>4. MappedButtonsHeld' /\ TokenHasTimer(ks') /\ OneDirection'
    BY <1>2, <1>3, <2>1 DEF IInv, MappedButtonsHeld, OneDirection
  <2>5. KeysFollowed'
    <3> SUFFICES ASSUME NEW other \in Axes \ missed'
                 PROVE  {d \in Directions : <<other, d>> \in ks'.mappedStick}
                          = {pad'.stick[other]} \ {0}
      BY DEF KeysFollowed
    <3>1. other \in Axes \ missed /\ pad'.stick[other] = pad.stick[other]
      BY <1>2, <1>3, <2>1
    <3> QED BY <2>1, <3>1 DEF IInv, KeysFollowed
  <2> QED BY <2>3, <2>4, <2>5 DEF IInv
<1> QED BY <1>4, <1>5

LEMMA ButtonPressedStep ==
    ASSUME IInv, NEW button \in Buttons, ButtonPressed(button)
    PROVE  IInv'
<1> DEFINE held == Press(ks, KeyOf[button])
<1>1. Sound(ks) /\ Sound(held) /\ SameMaps(ks, held)
  BY SoundNow, KnownKeys, KeySound DEF Press
<1>2. ks' = IF AllowKeyMapping
            THEN [held EXCEPT !.mappedButtons = @ \cup {button}] ELSE ks
  BY DEF ButtonPressed
<1> HIDE DEF held
<1>3. /\ Sound(ks')
      /\ ks'.mappedStick = ks.mappedStick
      /\ ks'.mappedButtons \subseteq ks.mappedButtons \cup {button}
  BY <1>1, <1>2 DEF Sound, TokenHasTimer, KeyStates, SameMaps
<1>4. /\ pad' \in [held : SUBSET (Buttons \cup Triggers), mode : BOOLEAN,
                   stick : [Axes -> Directions \cup {0}]]
      /\ pad'.held = pad.held \cup {button}
      /\ pad'.stick = pad.stick
      /\ UNCHANGED <<typed, active, lastFocus, missed, unplugged>>
  BY DEF IInv, TypeOK, ButtonPressed
<1>5. strays' \subseteq Keys
  BY <1>3, StraysTyped DEF ButtonPressed
<1>6. TypeOK'
  BY <1>3, <1>4, <1>5 DEF IInv, TypeOK, Sound, KeyStates
<1>7. MappedButtonsHeld' /\ TokenHasTimer(ks')
  BY <1>3, <1>4 DEF IInv, MappedButtonsHeld, Sound
<1>8. OneDirection' /\ KeysFollowed'
  BY <1>3, <1>4, UntouchedStick DEF Sound
<1> QED BY <1>6, <1>7, <1>8 DEF IInv

LEMMA ButtonReleasedStep ==
    ASSUME IInv, NEW button \in Buttons \cup Triggers, ButtonReleased(button)
    PROVE  IInv'
<1> DEFINE forgotten == [ks EXCEPT !.mappedButtons = @ \ {button}]
           released == Release(forgotten, KeyOf[button])
<1>1. Sound(ks)
  BY SoundNow
<1>2. /\ Sound(forgotten)
      /\ forgotten.mappedStick = ks.mappedStick
      /\ forgotten.mappedButtons = ks.mappedButtons \ {button}
  BY <1>1 DEF Sound, TokenHasTimer, KeyStates
<1>3. ks' = IF button \in ks.mappedButtons THEN released ELSE ks
  BY DEF ButtonReleased
<1> HIDE DEF forgotten
<1>4. Sound(released) /\ SameMaps(forgotten, released)
  BY <1>2, KnownKeys, KeySound DEF Release
<1> HIDE DEF released
<1>5. /\ Sound(ks')
      /\ ks'.mappedStick = ks.mappedStick
      /\ ks'.mappedButtons = ks.mappedButtons \ {button}
  BY <1>1, <1>2, <1>3, <1>4 DEF SameMaps
<1>6. /\ pad' \in [held : SUBSET (Buttons \cup Triggers), mode : BOOLEAN,
                   stick : [Axes -> Directions \cup {0}]]
      /\ pad'.held = pad.held \ {button}
      /\ pad'.stick = pad.stick
      /\ UNCHANGED <<typed, active, lastFocus, missed, unplugged>>
  BY DEF IInv, TypeOK, ButtonReleased
<1>7. strays' \subseteq Keys
  BY <1>5, StraysTyped DEF ButtonReleased
<1>8. TypeOK'
  BY <1>5, <1>6, <1>7 DEF IInv, TypeOK, Sound, KeyStates
<1>9. MappedButtonsHeld' /\ TokenHasTimer(ks')
  BY <1>5, <1>6 DEF IInv, MappedButtonsHeld, Sound
<1>10. OneDirection' /\ KeysFollowed'
  BY <1>5, <1>6, UntouchedStick DEF Sound
<1> QED BY <1>8, <1>9, <1>10 DEF IInv

\* What is left of the actions that change keys, but no map and no stick.
LEMMA KeysOnlyStep ==
    ASSUME IInv, Sound(ks'), SameMaps(ks, ks'),
           pad' \in [held : SUBSET (Buttons \cup Triggers), mode : BOOLEAN,
                     stick : [Axes -> Directions \cup {0}]],
           pad.held \cap Buttons \subseteq pad'.held,
           pad'.stick = pad.stick,
           typed' \subseteq KeyboardKeys,
           {active', lastFocus'} \subseteq Apps \cup {NoApp},
           strays' \subseteq Keys,
           UNCHANGED <<missed, unplugged>>
    PROVE  IInv'
<1>1. ks' \in KeyStates /\ TokenHasTimer(ks')
  BY DEF Sound
<1>2. TypeOK'
  BY <1>1 DEF IInv, TypeOK, KeyStates
<1>3. ks'.mappedButtons \subseteq Buttons /\ ks'.mappedButtons = ks.mappedButtons
  BY <1>1 DEF KeyStates, SameMaps
<1>4. MappedButtonsHeld'
  BY <1>3 DEF IInv, MappedButtonsHeld
<1>5. OneDirection' /\ KeysFollowed'
  BY <1>1, UntouchedStick DEF SameMaps
<1> QED BY <1>1, <1>2, <1>4, <1>5 DEF IInv

LEMMA TriggerPressedStep ==
    ASSUME IInv, NEW trigger \in Triggers, TriggerPressed(trigger)
    PROVE  IInv'
<1> DEFINE key == KeyOf[trigger]
           held == Press(ks, key)
           clicked == Release(held, key)
<1>1. key \in Keys
  BY KnownKeys
<1>2. ks' = IF AllowKeyMapping THEN clicked ELSE ks
  BY DEF TriggerPressed
<1>3. Stray({key})
  BY DEF TriggerPressed
<1> HIDE DEF key
<1>4. Sound(ks) /\ Sound(held) /\ SameMaps(ks, held)
  BY <1>1, SoundNow, KeySound DEF Press
<1> HIDE DEF held
<1>5. Sound(clicked) /\ SameMaps(held, clicked)
  BY <1>1, <1>4, KeySound DEF Release
<1> HIDE DEF clicked
<1>6. Sound(ks') /\ SameMaps(ks, ks')
  BY <1>2, <1>4, <1>5 DEF SameMaps
<1>7. strays' \subseteq Keys
  BY <1>3, <1>6, StraysTyped
<1>8. /\ pad' \in [held : SUBSET (Buttons \cup Triggers), mode : BOOLEAN,
                   stick : [Axes -> Directions \cup {0}]]
      /\ pad'.held = pad.held \cup {trigger} /\ pad'.stick = pad.stick
      /\ UNCHANGED <<typed, active, lastFocus, missed, unplugged>>
      /\ typed \subseteq KeyboardKeys
      /\ {active, lastFocus} \subseteq Apps \cup {NoApp}
  BY DEF IInv, TypeOK, TriggerPressed
<1> QED BY <1>6, <1>7, <1>8, KeysOnlyStep

LEMMA ModeStep ==
    ASSUME IInv,
           ModeReleased \/ \E app \in Apps, toggled \in BOOLEAN : ModePressed(app, toggled)
    PROVE  IInv'
<1>1. \A isPress \in BOOLEAN :
        LET l == HandleUserBinding(ks, BtnMode, isPress) IN Sound(l) /\ SameMaps(ks, l)
  BY SoundNow, KnownKeys, HandleSound
<1>2. /\ ks' \in {ks} \cup {HandleUserBinding(ks, BtnMode, isPress) : isPress \in BOOLEAN}
      /\ active' \in Apps \cup {active}
      /\ UNCHANGED <<typed, lastFocus, missed, strays, unplugged>>
  BY DEF ModePressed, ModeReleased
<1>3. Sound(ks') /\ SameMaps(ks, ks')
  BY <1>1, <1>2, SoundNow DEF SameMaps
<1>4. /\ pad' \in [held : SUBSET (Buttons \cup Triggers), mode : BOOLEAN,
                   stick : [Axes -> Directions \cup {0}]]
      /\ pad'.held = pad.held /\ pad'.stick = pad.stick
  BY DEF IInv, TypeOK, ModePressed, ModeReleased
<1>5. typed \subseteq KeyboardKeys /\ strays \subseteq Keys
      /\ {active, lastFocus} \subseteq Apps \cup {NoApp}
  BY DEF IInv, TypeOK
<1> QED BY <1>2, <1>3, <1>4, <1>5, KeysOnlyStep

LEMMA UnplugStep == IInv /\ Unplug => IInv'
<1> SUFFICES ASSUME IInv, Unplug PROVE IInv'
  OBVIOUS
<1>1. /\ pad' = [held |-> {}, mode |-> FALSE, stick |-> [axis \in Axes |-> 0]]
      /\ missed' = missed \cup {axis \in Axes : pad.stick[axis] # 0}
      /\ unplugged' = TRUE
      /\ UNCHANGED <<typed, ks, active, lastFocus, strays>>
  BY DEF Unplug
<1>2. TypeOK'
  BY <1>1 DEF IInv, TypeOK
<1>3. TokenHasTimer(ks') /\ MappedButtonsHeld' /\ OneDirection'
  BY <1>1 DEF IInv, MappedButtonsHeld, OneDirection
<1>4. KeysFollowed'
  <2> SUFFICES ASSUME NEW axis \in Axes \ missed'
               PROVE  {dir \in Directions : <<axis, dir>> \in ks'.mappedStick}
                        = {pad'.stick[axis]} \ {0}
    BY DEF KeysFollowed
  <2>1. pad'.stick[axis] = 0 /\ pad.stick[axis] = 0 /\ axis \in Axes \ missed
    BY <1>1
  <2> QED BY <1>1, <2>1 DEF IInv, KeysFollowed
<1> QED BY <1>2, <1>3, <1>4 DEF IInv

LEMMA KeyboardStep ==
    ASSUME IInv, NEW key \in KeyboardKeys, KeyPressed(key) \/ KeyReleased(key)
    PROVE  IInv'
<1>1. key \in Keys /\ Sound(ks)
  BY KnownKeys, SoundNow
<1>2. Sound(Press(ks, key)) /\ SameMaps(ks, Press(ks, key))
      /\ Sound(Release(ks, key)) /\ SameMaps(ks, Release(ks, key))
  BY <1>1, KeySound DEF Press, Release
<1>3. ks' = Press(ks, key) \/ ks' = Release(ks, key)
  BY DEF KeyPressed, KeyReleased
<1>4. Sound(ks') /\ SameMaps(ks, ks')
  BY <1>2, <1>3
<1>5. strays' \subseteq Keys
  BY <1>4, StraysTyped DEF KeyPressed, KeyReleased
<1>6. /\ UNCHANGED <<pad, active, lastFocus, missed, unplugged>>
      /\ typed' \subseteq KeyboardKeys
  BY DEF IInv, TypeOK, KeyPressed, KeyReleased
<1>7. /\ pad \in [held : SUBSET (Buttons \cup Triggers), mode : BOOLEAN,
                  stick : [Axes -> Directions \cup {0}]]
      /\ {active, lastFocus} \subseteq Apps \cup {NoApp}
  BY DEF IInv, TypeOK
<1> QED BY <1>4, <1>5, <1>6, <1>7, KeysOnlyStep

LEMMA WindowStep ==
    ASSUME IInv, CreateFrame \/ \E app \in Apps \cup {NoApp} : Focus(app)
    PROVE  IInv'
<1>1. /\ UNCHANGED <<pad, typed, ks, missed, strays, unplugged>>
      /\ {active', lastFocus'} \subseteq Apps \cup {NoApp}
  BY DEF IInv, TypeOK, CreateFrame, Focus
<1>2. Sound(ks') /\ SameMaps(ks, ks')
  BY <1>1, SoundNow DEF SameMaps
<1>3. /\ pad \in [held : SUBSET (Buttons \cup Triggers), mode : BOOLEAN,
                  stick : [Axes -> Directions \cup {0}]]
      /\ typed \subseteq KeyboardKeys /\ strays \subseteq Keys
  BY DEF IInv, TypeOK
<1> QED BY <1>1, <1>2, <1>3, KeysOnlyStep

LEMMA NextIInv == IInv /\ [Next]_vars => IInv'
<1> SUFFICES ASSUME IInv, [Next]_vars PROVE IInv'
  OBVIOUS
<1>1. CASE \E axis \in Axes, dir \in Directions \cup {0} : MoveStick(axis, dir)
  BY <1>1, MoveStickStep
<1>2. CASE \E button \in Buttons : ButtonPressed(button)
  BY <1>2, ButtonPressedStep
<1>3. CASE \E button \in Buttons \cup Triggers : ButtonReleased(button)
  BY <1>3, ButtonReleasedStep
<1>4. CASE \E trigger \in Triggers : TriggerPressed(trigger)
  BY <1>4, TriggerPressedStep
<1>5. CASE ModeReleased \/ \E app \in Apps, toggled \in BOOLEAN : ModePressed(app, toggled)
  BY <1>5, ModeStep
<1>6. CASE Unplug
  BY <1>6, UnplugStep
<1>7. CASE \E key \in KeyboardKeys : KeyPressed(key) \/ KeyReleased(key)
  BY <1>7, KeyboardStep
<1>8. CASE CreateFrame \/ \E app \in Apps \cup {NoApp} : Focus(app)
  BY <1>8, WindowStep
<1>9. CASE UNCHANGED vars
  BY <1>9 DEF vars, IInv, TypeOK, TokenHasTimer, MappedButtonsHeld, OneDirection, KeysFollowed
<1> QED BY <1>1, <1>2, <1>3, <1>4, <1>5, <1>6, <1>7, <1>8, <1>9 DEF Next

LEMMA AlwaysIInv == Spec => []IInv
<1>1. IInv /\ [Next]_vars => IInv'
  BY NextIInv
<1> QED BY InitIInv, <1>1, PTL DEF Spec

----------------------------------------------------------------------------
(* Theorems. *)

\* Keys, maps and timers keep their types; in particular a repetition is
\* cancelled no more often than one was started.
THEOREM TypeCorrect == Spec => []TypeOK
<1>1. IInv => TypeOK
  BY DEF IInv
<1> QED BY AlwaysIInv, <1>1, PTL

\* However windows, buttons and keys take turns, a button is mapped no longer
\* than it is held: its release is handled whatever is active by then.
THEOREM MappedAreHeld == Spec => []MappedButtonsHeld
<1>1. IInv => MappedButtonsHeld
  BY DEF IInv
<1> QED BY AlwaysIInv, <1>1, PTL

\* The keys mapped for an axis are those of its direction, unless its last
\* change was not handled, and never both.
THEOREM KeysFollowStick == Spec => []StickFollowed
<1>1. IInv => StickFollowed
  BY DEF IInv, OneDirection, KeysFollowed, StickFollowed, Directions
<1> QED BY AlwaysIInv, <1>1, PTL

\* Whatever windows are activated, what is mapped follows the gamepad.
THEOREM MappingsFollow == Spec => []MappingFollowsPad
BY MappedAreHeld, KeysFollowStick, PTL DEF MappingFollowsPad

----------------------------------------------------------------------------
(* What a key leaves behind.  `typed` and `lastFocus` are those of the step. *)

Sourced(k, keys) ==
    k.pressed \subseteq k.mappedStick \cup {KeyOf[b] : b \in k.mappedButtons} \cup keys

\* Keys that switch terminals reach no binding.
NoVtActive(k) == k.active \cap VtKeys = {}

\* No more is active without being pressed in l than was in k, except for
\* `released` keys whose release an inhibiting surface took.
StraysFrom(k, l, released) ==
    l.active \ l.pressed \subseteq
        (k.active \ k.pressed) \cup {key \in released : Inhibited(key)}

LEMMA CancelKeys ==
    ASSUME NEW k, Sound(k)
    PROVE  LET l == CancelKeyRepeat(k)
           IN Sound(l) /\ l.pressed = k.pressed /\ l.active = k.active
BY CancelSound DEF CancelKeyRepeat, Sound, KeyStates

LEMMA BindingsKeys ==
    ASSUME NEW k, Sound(k), NEW isPress \in BOOLEAN
    PROVE  LET l == RunBindings(k, isPress)
           IN Sound(l) /\ l.pressed = k.pressed /\ l.active = k.active
<1>1. RunBindings(k, isPress).pressed = k.pressed
  BY DEF RunBindings, Sound, KeyStates
<1> QED BY <1>1, BindingsSound

\* What a binding leaves of the keys: those pressed, and one more or one less
\* that is active, unless the surface takes the key.
LEMMA HandleKeys ==
    ASSUME NEW k, Sound(k), NEW key \in Keys, NEW isPress \in BOOLEAN
    PROVE  LET l == HandleUserBinding(k, key, isPress)
           IN /\ l.pressed = k.pressed
              /\ l.active = IF Inhibited(key) THEN k.active
                            ELSE IF isPress THEN k.active \cup {key}
                            ELSE k.active \ {key}
<1> DEFINE quiet == CancelKeyRepeat(k)
           known == IF isPress THEN [quiet EXCEPT !.active = @ \cup {key}] ELSE quiet
           run == RunBindings(known, isPress)
<1>1. Sound(quiet) /\ quiet.pressed = k.pressed /\ quiet.active = k.active
  BY CancelKeys
<1>2. HandleUserBinding(k, key, isPress)
        = IF Inhibited(key) THEN quiet
          ELSE IF isPress THEN run ELSE [run EXCEPT !.active = @ \ {key}]
  BY DEF HandleUserBinding
<1> HIDE DEF quiet
<1>3. /\ Sound(known) /\ known.pressed = k.pressed
      /\ known.active = IF isPress THEN k.active \cup {key} ELSE k.active
  BY <1>1 DEF Sound, TokenHasTimer, KeyStates
<1> HIDE DEF known
<1>4. Sound(run) /\ run.pressed = known.pressed /\ run.active = known.active
  BY <1>3, BindingsKeys
<1> HIDE DEF run
<1>5. run \in KeyStates
  BY <1>4 DEF Sound
<1>6. run.pressed = k.pressed /\ run.active = known.active
  BY <1>3, <1>4
<1>7. [run EXCEPT !.active = @ \ {key}].pressed = run.pressed
      /\ [run EXCEPT !.active = @ \ {key}].active = run.active \ {key}
  BY <1>5 DEF KeyStates
<1>8. CASE Inhibited(key)
  BY <1>1, <1>2, <1>8
<1>9. CASE ~Inhibited(key) /\ isPress
  BY <1>2, <1>3, <1>6, <1>9
<1>10. CASE ~Inhibited(key) /\ ~isPress
  BY <1>2, <1>3, <1>6, <1>7, <1>10
<1> QED BY <1>8, <1>9, <1>10

\* What a key of the keyboard, a button or a trigger makes of k.
Input(k, l, key, isPress) ==
    /\ Sound(l) /\ SameMaps(k, l) /\ NoVtActive(l)
    /\ l.pressed = IF isPress THEN k.pressed \cup {key} ELSE k.pressed \ {key}
    /\ StraysFrom(k, l, IF isPress THEN {} ELSE {key})

LEMMA InputKeys ==
    ASSUME NEW k, Sound(k), NoVtActive(k), NEW key \in Keys, NEW isPress \in BOOLEAN
    PROVE  Input(k, OnKeyboardInput(k, key, isPress), key, isPress)
<1> DEFINE noted == [k EXCEPT !.pressed = IF isPress THEN @ \cup {key} ELSE @ \ {key}]
           l == OnKeyboardInput(k, key, isPress)
<1>1. /\ Sound(noted) /\ noted.active = k.active
      /\ noted.pressed = IF isPress THEN k.pressed \cup {key} ELSE k.pressed \ {key}
  BY DEF Sound, TokenHasTimer, KeyStates
<1>2. l = IF key \in VtKeys THEN noted ELSE HandleUserBinding(noted, key, isPress)
  BY DEF OnKeyboardInput
<1> HIDE DEF noted
<1>3. Sound(l) /\ SameMaps(k, l)
  BY KeySound
<1> DEFINE handled == HandleUserBinding(noted, key, isPress)
<1>4. /\ handled.pressed = noted.pressed
      /\ handled.active = IF Inhibited(key) THEN noted.active
                          ELSE IF isPress THEN noted.active \cup {key}
                          ELSE noted.active \ {key}
  BY <1>1, HandleKeys
<1> HIDE DEF handled
<1>5. /\ l.pressed = noted.pressed
      /\ l.active = IF key \in VtKeys \/ Inhibited(key) THEN k.active
                    ELSE IF isPress THEN k.active \cup {key} ELSE k.active \ {key}
  BY <1>1, <1>2, <1>4 DEF handled
<1> HIDE DEF l
<1>6. NoVtActive(l)
  BY <1>5 DEF NoVtActive
<1>7. StraysFrom(k, l, IF isPress THEN {} ELSE {key})
  BY <1>1, <1>5 DEF StraysFrom, NoVtActive
<1>8. l.pressed = IF isPress THEN k.pressed \cup {key} ELSE k.pressed \ {key}
  BY <1>1, <1>5
<1>9. Input(k, l, key, isPress)
  BY <1>3, <1>6, <1>7, <1>8 DEF Input
<1> QED BY <1>9 DEF l

LEMMA StickPressKeys ==
    ASSUME NEW k, Sound(k), NoVtActive(k), NEW keys, Sourced(k, keys), NEW key \in StickKeys
    PROVE  LET l == StickPress(k, key)
           IN Sound(l) /\ NoVtActive(l) /\ Sourced(l, keys) /\ StraysFrom(k, l, {})
<1> DEFINE mapped == [k EXCEPT !.mappedStick = @ \cup {key}]
           l == Press(mapped, key)
<1>1. /\ Sound(mapped) /\ NoVtActive(mapped)
      /\ mapped.mappedStick = k.mappedStick \cup {key}
      /\ mapped.mappedButtons = k.mappedButtons
      /\ mapped.pressed = k.pressed /\ mapped.active = k.active
  BY DEF Sound, TokenHasTimer, KeyStates, NoVtActive
<1>2. StickPress(k, key) = IF key \in k.mappedStick THEN k ELSE l
  BY DEF StickPress
<1>3. key \in Keys
  BY DEF Keys, PadKeys
<1> HIDE DEF mapped
<1>4. /\ Sound(l) /\ SameMaps(mapped, l) /\ NoVtActive(l)
      /\ l.pressed = mapped.pressed \cup {key}
      /\ StraysFrom(mapped, l, {})
  BY <1>1, <1>3, InputKeys DEF Press, Input
<1> HIDE DEF l
<1>5. Sourced(l, keys) /\ StraysFrom(k, l, {})
  BY <1>1, <1>4 DEF Sourced, SameMaps, StraysFrom
<1>6. StraysFrom(k, k, {})
  BY DEF StraysFrom
<1> QED BY <1>2, <1>4, <1>5, <1>6

LEMMA StickReleaseKeys ==
    ASSUME NEW k, Sound(k), NoVtActive(k), NEW keys, Sourced(k, keys), NEW key \in StickKeys
    PROVE  LET l == StickRelease(k, key)
           IN /\ Sound(l) /\ NoVtActive(l) /\ Sourced(l, keys)
              /\ StraysFrom(k, l, {key} \cap k.mappedStick)
<1> DEFINE mapped == [k EXCEPT !.mappedStick = @ \ {key}]
           l == Release(mapped, key)
<1>1. /\ Sound(mapped) /\ NoVtActive(mapped)
      /\ mapped.mappedStick = k.mappedStick \ {key}
      /\ mapped.mappedButtons = k.mappedButtons
      /\ mapped.pressed = k.pressed /\ mapped.active = k.active
  BY DEF Sound, TokenHasTimer, KeyStates, NoVtActive
<1>2. StickRelease(k, key) = IF key \in k.mappedStick THEN l ELSE k
  BY DEF StickRelease
<1>3. key \in Keys
  BY DEF Keys, PadKeys
<1> HIDE DEF mapped
<1>4. /\ Sound(l) /\ SameMaps(mapped, l) /\ NoVtActive(l)
      /\ l.pressed = mapped.pressed \ {key}
      /\ StraysFrom(mapped, l, {key})
  BY <1>1, <1>3, InputKeys DEF Release, Input
<1> HIDE DEF l
<1>5. Sourced(l, keys) /\ StraysFrom(k, l, {key})
  BY <1>1, <1>4 DEF Sourced, SameMaps, StraysFrom
<1>6. StraysFrom(k, k, {})
  BY DEF StraysFrom
<1>7. CASE key \in k.mappedStick
  <2>1. {key} \cap k.mappedStick = {key}
    BY <1>7
  <2> QED BY <1>2, <1>4, <1>5, <1>7, <2>1
<1>8. CASE key \notin k.mappedStick
  <2>1. {key} \cap k.mappedStick = {}
    BY <1>8
  <2> QED BY <1>2, <1>6, <1>8, <2>1
<1> QED BY <1>7, <1>8

\* Only keys that were mapped before are released when an axis changes.
LEMMA AxisKeys ==
    ASSUME NEW k, Sound(k), NoVtActive(k), NEW keys, Sourced(k, keys),
           NEW axis \in Axes, NEW dir \in Directions \cup {0}
    PROVE  LET l == AxisChanged(k, axis, dir)
           IN /\ NoVtActive(l) /\ Sourced(l, keys)
              /\ StraysFrom(k, l, k.mappedStick)
<1>1. <<axis, -1>> \in StickKeys /\ <<axis, 1>> \in StickKeys
  BY DEF StickKeys, Directions
<1>2. CASE dir = 0
  <2> DEFINE m == StickRelease(k, <<axis, -1>>)
             l == StickRelease(m, <<axis, 1>>)
  <2>1. /\ Sound(m) /\ NoVtActive(m) /\ Sourced(m, keys)
        /\ StraysFrom(k, m, {<<axis, -1>>} \cap k.mappedStick)
        /\ m.mappedStick \subseteq k.mappedStick
    BY <1>1, StickReleaseKeys, StickReleaseSound, ZenonT(30)
  <2>2. AxisChanged(k, axis, dir) = l
    BY <1>2 DEF AxisChanged
  <2> HIDE DEF m
  <2>3. /\ NoVtActive(l) /\ Sourced(l, keys)
        /\ StraysFrom(m, l, {<<axis, 1>>} \cap m.mappedStick)
    BY <1>1, <2>1, StickReleaseKeys
  <2> HIDE DEF l
  <2>4. StraysFrom(k, l, k.mappedStick)
    BY <2>1, <2>3 DEF StraysFrom
  <2> QED BY <2>2, <2>3, <2>4
<1>3. CASE dir # 0
  <2> DEFINE m == StickPress(k, <<axis, dir>>)
             l == StickRelease(m, <<axis, -dir>>)
  <2>1. dir \in {-1, 1} /\ -dir \in {-1, 1} /\ dir # -dir
    BY <1>3 DEF Directions
  <2>2. <<axis, dir>> \in StickKeys /\ <<axis, -dir>> \in StickKeys
    BY <1>1, <2>1
  <2>3. /\ Sound(m) /\ NoVtActive(m) /\ Sourced(m, keys)
        /\ StraysFrom(k, m, {})
        /\ m.mappedStick = k.mappedStick \cup {<<axis, dir>>}
    BY <2>2, StickPressKeys, StickPressSound
  <2>4. AxisChanged(k, axis, dir) = l
    BY <1>3 DEF AxisChanged
  <2> HIDE DEF m
  <2>5. /\ NoVtActive(l) /\ Sourced(l, keys)
        /\ StraysFrom(m, l, {<<axis, -dir>>} \cap m.mappedStick)
    BY <2>2, <2>3, StickReleaseKeys
  <2>6. <<axis, dir>> # <<axis, -dir>>
    BY <2>1
  <2>7. {<<axis, -dir>>} \cap m.mappedStick \subseteq k.mappedStick
    BY <2>3, <2>6
  <2> HIDE DEF l
  <2>8. StraysFrom(k, l, k.mappedStick)
    BY <2>3, <2>5, <2>7 DEF StraysFrom
  <2> QED BY <2>4, <2>5, <2>8
<1> QED BY <1>2, <1>3

----------------------------------------------------------------------------
(* The keys that are pressed and active. *)

SourceInv == IInv /\ PressedHasSource /\ ActiveKeysPressed /\ NoVtActive(ks)

LEMMA StraysKept ==
    ASSUME ActiveKeysPressed, NEW released, StraysFrom(ks, ks', released), Stray(released)
    PROVE  ActiveKeysPressed'
BY DEF ActiveKeysPressed, StraysFrom, Stray

LEMMA KeyStepKeys ==
    ASSUME SourceInv, NEW key \in Keys, NEW isPress \in BOOLEAN, NEW k, Sound(k),
           k.active = ks.active, k.pressed = ks.pressed
    PROVE  /\ Input(k, OnKeyboardInput(k, key, isPress), key, isPress)
           /\ \A l, released : StraysFrom(k, l, released) => StraysFrom(ks, l, released)
<1>1. NoVtActive(k)
  BY DEF SourceInv, NoVtActive
<1>2. Input(k, OnKeyboardInput(k, key, isPress), key, isPress)
  BY <1>1, InputKeys
<1>3. \A l, released : StraysFrom(k, l, released) => StraysFrom(ks, l, released)
  BY DEF StraysFrom
<1> QED BY <1>2, <1>3

LEMMA MoveStickKeys ==
    ASSUME SourceInv, NEW axis \in Axes, NEW dir \in Directions \cup {0}, MoveStick(axis, dir)
    PROVE  PressedHasSource' /\ ActiveKeysPressed' /\ NoVtActive(ks)'
<1>1. Sound(ks) /\ NoVtActive(ks) /\ Sourced(ks, typed) /\ ActiveKeysPressed
  BY SoundNow DEF SourceInv, PressedHasSource, Sourced
<1>2. Stray(ks.mappedStick) /\ typed' = typed
  BY DEF MoveStick
<1>3. NoVtActive(ks') /\ Sourced(ks', typed) /\ StraysFrom(ks, ks', ks.mappedStick)
  <2>1. CASE AllowKeyMapping
    <3>1. ks' = AxisChanged(ks, axis, dir)
      BY <2>1 DEF MoveStick
    <3> QED BY <1>1, <3>1, AxisKeys
  <2>2. CASE ~AllowKeyMapping
    <3>1. ks' = ks
      BY <2>2 DEF MoveStick
    <3> QED BY <1>1, <3>1 DEF StraysFrom
  <2> QED BY <2>1, <2>2
<1>4. ActiveKeysPressed'
  BY <1>1, <1>2, <1>3, StraysKept
<1> QED BY <1>2, <1>3, <1>4 DEF PressedHasSource, Sourced, NoVtActive

LEMMA ButtonKeys ==
    ASSUME SourceInv, NEW button \in Buttons, ButtonPressed(button)
    PROVE  PressedHasSource' /\ ActiveKeysPressed' /\ NoVtActive(ks)'
<1> DEFINE held == Press(ks, KeyOf[button])
<1>1. /\ Sound(ks) /\ NoVtActive(ks) /\ ActiveKeysPressed /\ PressedHasSource
      /\ KeyOf[button] \in Keys /\ Stray({}) /\ typed' = typed
  BY SoundNow, KnownKeys DEF SourceInv, ButtonPressed
<1>2. ks' = IF AllowKeyMapping
            THEN [held EXCEPT !.mappedButtons = @ \cup {button}] ELSE ks
  BY DEF ButtonPressed
<1>3. /\ Sound(held) /\ NoVtActive(held) /\ SameMaps(ks, held)
      /\ held.pressed = ks.pressed \cup {KeyOf[button]}
      /\ StraysFrom(ks, held, {})
  BY <1>1, KeyStepKeys DEF Press, Input
<1> HIDE DEF held
<1>4. CASE AllowKeyMapping
  <2>1. /\ ks'.pressed = ks.pressed \cup {KeyOf[button]}
        /\ ks'.mappedStick = ks.mappedStick
        /\ ks'.mappedButtons = ks.mappedButtons \cup {button}
        /\ ks'.active = held.active
    BY <1>2, <1>3, <1>4 DEF Sound, KeyStates, SameMaps
  <2>2. StraysFrom(ks, ks', {}) /\ NoVtActive(ks)'
    BY <1>3, <2>1 DEF StraysFrom, NoVtActive
  <2>3. PressedHasSource'
    BY <1>1, <2>1 DEF PressedHasSource
  <2> QED BY <1>1, <2>2, <2>3, StraysKept
<1>5. CASE ~AllowKeyMapping
  <2>1. ks' = ks
    BY <1>2, <1>5
  <2>2. StraysFrom(ks, ks', {}) /\ NoVtActive(ks)' /\ PressedHasSource'
    BY <1>1, <2>1 DEF StraysFrom, NoVtActive, PressedHasSource
  <2> QED BY <1>1, <2>2, StraysKept
<1> QED BY <1>4, <1>5

LEMMA ButtonReleaseKeys ==
    ASSUME SourceInv, NEW button \in Buttons \cup Triggers, ButtonReleased(button)
    PROVE  PressedHasSource' /\ ActiveKeysPressed' /\ NoVtActive(ks)'
<1> DEFINE forgotten == [ks EXCEPT !.mappedButtons = @ \ {button}]
           released == Release(forgotten, KeyOf[button])
<1>1. /\ Sound(ks) /\ NoVtActive(ks) /\ ActiveKeysPressed /\ PressedHasSource
      /\ KeyOf[button] \in Keys /\ Stray({KeyOf[button]}) /\ typed' = typed
  BY SoundNow, KnownKeys DEF SourceInv, ButtonReleased
<1>2. /\ Sound(forgotten)
      /\ forgotten.active = ks.active /\ forgotten.pressed = ks.pressed
      /\ forgotten.mappedStick = ks.mappedStick
      /\ forgotten.mappedButtons = ks.mappedButtons \ {button}
  BY <1>1 DEF Sound, TokenHasTimer, KeyStates
<1>3. ks' = IF button \in ks.mappedButtons THEN released ELSE ks
  BY DEF ButtonReleased
<1> HIDE DEF forgotten
<1> DEFINE key == KeyOf[button]
<1>4. /\ NoVtActive(released) /\ SameMaps(forgotten, released)
      /\ released.pressed = ks.pressed \ {key}
      /\ StraysFrom(ks, released, {key})
  <2>1. Input(forgotten, released, key, FALSE)
    BY <1>1, <1>2, KeyStepKeys DEF Release
  <2>2. StraysFrom(forgotten, released, {key}) => StraysFrom(ks, released, {key})
    BY <1>1, <1>2, KeyStepKeys
  <2> HIDE DEF key, released
  <2> QED BY <1>2, <2>1, <2>2 DEF Input
<1> HIDE DEF released
<1>5. CASE button \in ks.mappedButtons
  <2>1. /\ ks' = released
        /\ ks'.mappedStick = ks.mappedStick
        /\ ks'.mappedButtons = ks.mappedButtons \ {button}
    BY <1>2, <1>3, <1>4, <1>5 DEF SameMaps
  <2>2. PressedHasSource'
    BY <1>1, <1>4, <2>1 DEF PressedHasSource
  <2>3. NoVtActive(ks)' /\ StraysFrom(ks, ks', {KeyOf[button]})
    BY <1>4, <2>1 DEF NoVtActive
  <2> QED BY <1>1, <2>2, <2>3, StraysKept
<1>6. CASE button \notin ks.mappedButtons
  <2>1. ks' = ks
    BY <1>3, <1>6
  <2>2. StraysFrom(ks, ks', {KeyOf[button]}) /\ NoVtActive(ks)' /\ PressedHasSource'
    BY <1>1, <2>1 DEF StraysFrom, NoVtActive, PressedHasSource
  <2> QED BY <1>1, <2>2, StraysKept
<1> QED BY <1>5, <1>6

LEMMA TriggerKeys ==
    ASSUME SourceInv, NEW trigger \in Triggers, TriggerPressed(trigger)
    PROVE  PressedHasSource' /\ ActiveKeysPressed' /\ NoVtActive(ks)'
<1> DEFINE key == KeyOf[trigger]
           held == Press(ks, key)
           clicked == Release(held, key)
<1>1. /\ Sound(ks) /\ NoVtActive(ks) /\ ActiveKeysPressed /\ PressedHasSource
      /\ key \in Keys /\ Stray({key}) /\ typed' = typed
  BY SoundNow, KnownKeys DEF SourceInv, TriggerPressed
<1>2. ks' = IF AllowKeyMapping THEN clicked ELSE ks
  BY DEF TriggerPressed
<1> HIDE DEF key
<1>3. /\ Sound(held) /\ NoVtActive(held) /\ SameMaps(ks, held)
      /\ held.pressed = ks.pressed \cup {key}
      /\ StraysFrom(ks, held, {})
  BY <1>1, KeyStepKeys DEF Press, Input
<1> HIDE DEF held
<1>4. /\ NoVtActive(clicked) /\ SameMaps(held, clicked)
      /\ clicked.pressed = held.pressed \ {key}
      /\ StraysFrom(held, clicked, {key})
  BY <1>1, <1>3, InputKeys DEF Release, Input
<1> HIDE DEF clicked
<1>5. StraysFrom(ks, clicked, {key}) /\ StraysFrom(ks, ks, {key})
  BY <1>3, <1>4 DEF StraysFrom
<1>6. NoVtActive(ks') /\ StraysFrom(ks, ks', {key})
  BY <1>1, <1>2, <1>4, <1>5
<1>7. /\ ks'.pressed \subseteq ks.pressed /\ SameMaps(ks, ks')
  BY <1>2, <1>3, <1>4 DEF SameMaps
<1>8. PressedHasSource'
  BY <1>1, <1>7 DEF PressedHasSource, SameMaps
<1>9. ActiveKeysPressed'
  BY <1>1, <1>6, StraysKept
<1> QED BY <1>6, <1>8, <1>9 DEF NoVtActive

LEMMA ModeKeys ==
    ASSUME SourceInv,
           ModeReleased \/ \E app \in Apps, toggled \in BOOLEAN : ModePressed(app, toggled)
    PROVE  PressedHasSource' /\ ActiveKeysPressed' /\ NoVtActive(ks)'
<1>1. /\ Sound(ks) /\ NoVtActive(ks) /\ ActiveKeysPressed /\ PressedHasSource
      /\ BtnMode \in Keys \ VtKeys
  BY SoundNow, KnownKeys, GamepadAssumption DEF SourceInv, GamepadAssumption
<1>2. /\ ks' \in {ks} \cup {HandleUserBinding(ks, BtnMode, isPress) : isPress \in BOOLEAN}
      /\ typed' = typed /\ strays' = strays
  BY DEF ModePressed, ModeReleased
<1>3. \A isPress \in BOOLEAN :
        LET l == HandleUserBinding(ks, BtnMode, isPress)
        IN  /\ SameMaps(ks, l) /\ l.pressed = ks.pressed
            /\ l.active \subseteq ks.active \cup {BtnMode}
  BY <1>1, HandleSound, HandleKeys, ZenonT(30)
<1>4. /\ SameMaps(ks, ks') /\ ks'.pressed = ks.pressed
      /\ ks'.active \subseteq ks.active \cup {BtnMode}
  BY <1>2, <1>3 DEF SameMaps
<1> QED BY <1>1, <1>2, <1>4
        DEF PressedHasSource, ActiveKeysPressed, NoVtActive, SameMaps

LEMMA KeyboardKeysStep ==
    ASSUME SourceInv, NEW key \in KeyboardKeys, KeyPressed(key) \/ KeyReleased(key)
    PROVE  PressedHasSource' /\ ActiveKeysPressed' /\ NoVtActive(ks)'
<1>1. /\ Sound(ks) /\ NoVtActive(ks) /\ ActiveKeysPressed /\ PressedHasSource
      /\ key \in Keys
  BY SoundNow, KnownKeys DEF SourceInv
<1>2. CASE KeyPressed(key)
  <2>1. ks' = Press(ks, key) /\ typed' = typed \cup {key} /\ Stray({})
    BY <1>2 DEF KeyPressed
  <2>2. /\ NoVtActive(ks') /\ SameMaps(ks, ks') /\ StraysFrom(ks, ks', {})
        /\ ks'.pressed = ks.pressed \cup {key}
    BY <1>1, <2>1, KeyStepKeys DEF Press, Input
  <2>3. PressedHasSource'
    BY <1>1, <2>1, <2>2 DEF PressedHasSource, SameMaps
  <2>4. ActiveKeysPressed'
    BY <1>1, <2>1, <2>2, StraysKept
  <2> QED BY <2>2, <2>3, <2>4 DEF NoVtActive
<1>3. CASE KeyReleased(key)
  <2>1. ks' = Release(ks, key) /\ typed' = typed \ {key} /\ Stray({key})
    BY <1>3 DEF KeyReleased
  <2>2. /\ NoVtActive(ks') /\ SameMaps(ks, ks') /\ StraysFrom(ks, ks', {key})
        /\ ks'.pressed = ks.pressed \ {key}
    BY <1>1, <2>1, KeyStepKeys DEF Release, Input
  <2>3. PressedHasSource'
    BY <1>1, <2>1, <2>2 DEF PressedHasSource, SameMaps
  <2>4. ActiveKeysPressed'
    BY <1>1, <2>1, <2>2, StraysKept
  <2> QED BY <2>2, <2>3, <2>4 DEF NoVtActive
<1> QED BY <1>2, <1>3

LEMMA InitSourceInv == Init => SourceInv
BY InitIInv DEF Init, SourceInv, PressedHasSource, ActiveKeysPressed, NoVtActive

LEMMA NextSourceInv == SourceInv /\ [Next]_vars => SourceInv'
<1> SUFFICES ASSUME SourceInv, [Next]_vars
             PROVE  PressedHasSource' /\ ActiveKeysPressed' /\ NoVtActive(ks)'
  BY NextIInv DEF SourceInv
<1>1. CASE \E axis \in Axes, dir \in Directions \cup {0} : MoveStick(axis, dir)
  BY <1>1, MoveStickKeys
<1>2. CASE \E button \in Buttons : ButtonPressed(button)
  BY <1>2, ButtonKeys
<1>3. CASE \E button \in Buttons \cup Triggers : ButtonReleased(button)
  BY <1>3, ButtonReleaseKeys
<1>4. CASE \E trigger \in Triggers : TriggerPressed(trigger)
  BY <1>4, TriggerKeys
<1>5. CASE ModeReleased \/ \E app \in Apps, toggled \in BOOLEAN : ModePressed(app, toggled)
  BY <1>5, ModeKeys
<1>6. CASE \E key \in KeyboardKeys : KeyPressed(key) \/ KeyReleased(key)
  BY <1>6, KeyboardKeysStep
<1>7. CASE Unplug \/ CreateFrame \/ UNCHANGED vars
           \/ \E app \in Apps \cup {NoApp} : Focus(app)
  <2>1. UNCHANGED <<typed, ks, strays>>
    BY <1>7 DEF Unplug, CreateFrame, Focus, vars
  <2> QED BY <2>1 DEF SourceInv, PressedHasSource, ActiveKeysPressed, NoVtActive
<1> QED BY <1>1, <1>2, <1>3, <1>4, <1>5, <1>6, <1>7 DEF Next

LEMMA AlwaysSourceInv == Spec => []SourceInv
<1>1. SourceInv /\ [Next]_vars => SourceInv'
  BY NextSourceInv
<1> QED BY InitSourceInv, <1>1, PTL DEF Spec

----------------------------------------------------------------------------
(* The timer of a binding that repeats. *)

\* The timers are those that were lost and the one that is remembered, whose keys
\* are active.
OneRepeat(k) ==
    /\ k.repeats = k.leaked + (IF k.token THEN 1 ELSE 0)
    /\ k.token => \E b \in Bindings : b.trigger = "repeat" /\ b.keys = k.active

\* What is remembered is cancelled by the next key.
LEMMA CancelEnds ==
    ASSUME NEW k, Sound(k), OneRepeat(k)
    PROVE  ~CancelKeyRepeat(k).token /\ OneRepeat(CancelKeyRepeat(k))
<1> DEFINE n == IF k.token THEN k.repeats - 1 ELSE k.repeats
           l == [k EXCEPT !.token = FALSE, !.repeats = n]
<1>1. k.repeats \in Nat /\ k.leaked \in Nat /\ k.token \in BOOLEAN
  BY DEF Sound, KeyStates
<1>2. CancelKeyRepeat(k) = l
  BY DEF CancelKeyRepeat
<1>3. n = k.leaked
  BY <1>1 DEF OneRepeat
<1> HIDE DEF n
<1>4. ~l.token /\ l.repeats = n /\ l.leaked = k.leaked
  BY DEF Sound, KeyStates
<1> HIDE DEF l
<1>5. l.repeats = l.leaked + (IF l.token THEN 1 ELSE 0)
  BY <1>1, <1>3, <1>4
<1> QED BY <1>2, <1>4, <1>5 DEF OneRepeat

\* All but one of the timers that bindings add are lost; releases add none.
LEMMA BindingsRepeat ==
    ASSUME NEW k, Sound(k), OneRepeat(k), ~k.token, NEW isPress \in BOOLEAN
    PROVE  LET l == RunBindings(k, isPress)
           IN OneRepeat(l) /\ (~isPress => ~l.token)
<1> DEFINE repeating == {b \in Matching(k.active, isPress) : b.trigger = "repeat"}
           n == Cardinality(repeating)
           l == RunBindings(k, isPress)
<1> SUFFICES OneRepeat(l) /\ (~isPress => ~l.token)
  OBVIOUS
<1>1. CASE repeating = {}
  <2>1. l = k
    BY <1>1 DEF RunBindings
  <2> QED BY <2>1
<1>2. CASE repeating # {}
  <2>1. PICK b \in repeating : TRUE
    BY <1>2
  <2>2. b \in Bindings /\ b.trigger = "repeat" /\ b.keys = k.active /\ isPress
    BY <2>1 DEF Matching
  <2>3. n \in Nat
    <3>1. repeating \subseteq Bindings
      BY DEF Matching
    <3> QED BY <3>1, GamepadAssumption, FS_Subset, FS_CardinalityType DEF GamepadAssumption
  <2>4. l = [k EXCEPT !.repeats = k.repeats + n, !.token = TRUE, !.leaked = k.leaked + n - 1]
    BY <1>2 DEF RunBindings
  <2> HIDE DEF n, repeating
  <2>5. /\ l.repeats = k.repeats + n /\ l.token = TRUE /\ l.leaked = k.leaked + n - 1
        /\ l.active = k.active
    BY <2>4 DEF Sound, KeyStates
  <2>6. k.repeats = k.leaked /\ k.leaked \in Nat
    BY DEF OneRepeat, Sound, KeyStates
  <2> HIDE DEF l
  <2>7. l.repeats = l.leaked + (IF l.token THEN 1 ELSE 0)
    BY <2>3, <2>5, <2>6
  <2> QED BY <2>2, <2>5, <2>7 DEF OneRepeat
<1> QED BY <1>1, <1>2

LEMMA HandleRepeat ==
    ASSUME NEW k, Sound(k), OneRepeat(k), NEW key \in Keys, NEW isPress \in BOOLEAN
    PROVE  OneRepeat(HandleUserBinding(k, key, isPress))
<1> DEFINE quiet == CancelKeyRepeat(k)
           known == IF isPress THEN [quiet EXCEPT !.active = @ \cup {key}] ELSE quiet
           run == RunBindings(known, isPress)
           l == HandleUserBinding(k, key, isPress)
<1> SUFFICES OneRepeat(l)
  OBVIOUS
<1>1. Sound(quiet) /\ OneRepeat(quiet) /\ ~quiet.token
  BY CancelSound, CancelEnds
<1>2. l = IF Inhibited(key) THEN quiet
          ELSE IF isPress THEN run ELSE [run EXCEPT !.active = @ \ {key}]
  BY DEF HandleUserBinding
<1> HIDE DEF quiet
<1>3. Sound(known) /\ OneRepeat(known) /\ ~known.token
  BY <1>1 DEF Sound, TokenHasTimer, KeyStates, OneRepeat
<1> HIDE DEF known
<1>4. Sound(run) /\ OneRepeat(run) /\ (~isPress => ~run.token)
  BY <1>3, BindingsSound, BindingsRepeat
<1>5. LET m == [run EXCEPT !.active = @ \ {key}]
      IN  m.repeats = run.repeats /\ m.token = run.token /\ m.leaked = run.leaked
  BY <1>4 DEF Sound, KeyStates
<1> HIDE DEF run, l
<1>6. CASE Inhibited(key)
  BY <1>1, <1>2, <1>6 DEF OneRepeat
<1>7. CASE ~Inhibited(key) /\ isPress
  BY <1>2, <1>4, <1>7
<1>8. CASE ~Inhibited(key) /\ ~isPress
  BY <1>2, <1>4, <1>5, <1>8 DEF OneRepeat
<1> QED BY <1>6, <1>7, <1>8

LEMMA InputRepeat ==
    ASSUME NEW k, Sound(k), OneRepeat(k), NEW key \in Keys, NEW isPress \in BOOLEAN
    PROVE  OneRepeat(OnKeyboardInput(k, key, isPress))
<1> DEFINE noted == [k EXCEPT !.pressed = IF isPress THEN @ \cup {key} ELSE @ \ {key}]
<1>1. Sound(noted) /\ OneRepeat(noted)
  BY DEF Sound, TokenHasTimer, KeyStates, OneRepeat
<1>2. OnKeyboardInput(k, key, isPress)
        = IF key \in VtKeys THEN noted ELSE HandleUserBinding(noted, key, isPress)
  BY DEF OnKeyboardInput
<1> HIDE DEF noted
<1> QED BY <1>1, <1>2, HandleRepeat

LEMMA StickRepeat ==
    ASSUME NEW k, Sound(k), OneRepeat(k), NEW key \in StickKeys
    PROVE  OneRepeat(StickPress(k, key)) /\ OneRepeat(StickRelease(k, key))
<1> DEFINE more == [k EXCEPT !.mappedStick = @ \cup {key}]
           less == [k EXCEPT !.mappedStick = @ \ {key}]
<1>1. Sound(more) /\ OneRepeat(more) /\ Sound(less) /\ OneRepeat(less)
  BY DEF Sound, TokenHasTimer, KeyStates, OneRepeat
<1>2. /\ StickPress(k, key) = IF key \in k.mappedStick THEN k ELSE Press(more, key)
      /\ StickRelease(k, key) = IF key \in k.mappedStick THEN Release(less, key) ELSE k
  BY DEF StickPress, StickRelease
<1>3. key \in Keys
  BY DEF Keys, PadKeys
<1> HIDE DEF more, less
<1>4. OneRepeat(Press(more, key)) /\ OneRepeat(Release(less, key))
  BY <1>1, <1>3, InputRepeat DEF Press, Release
<1> QED BY <1>2, <1>4

LEMMA AxisRepeat ==
    ASSUME NEW k, Sound(k), OneRepeat(k),
           NEW axis \in Axes, NEW dir \in Directions \cup {0}
    PROVE  OneRepeat(AxisChanged(k, axis, dir))
<1>1. \A d \in Directions : <<axis, d>> \in StickKeys
  BY DEF StickKeys
<1>2. CASE dir = 0
  <2> DEFINE m == StickRelease(k, <<axis, -1>>)
  <2>1. Sound(m) /\ OneRepeat(m)
    BY <1>1, StickReleaseSound, StickRepeat DEF Directions
  <2>2. AxisChanged(k, axis, dir) = StickRelease(m, <<axis, 1>>)
    BY <1>2 DEF AxisChanged
  <2> HIDE DEF m
  <2> QED BY <1>1, <2>1, <2>2, StickRepeat DEF Directions
<1>3. CASE dir # 0
  <2> DEFINE m == StickPress(k, <<axis, dir>>)
  <2>1. dir \in Directions /\ -dir \in Directions
    BY <1>3 DEF Directions
  <2>2. Sound(m) /\ OneRepeat(m)
    BY <1>1, <2>1, StickPressSound, StickRepeat
  <2>3. AxisChanged(k, axis, dir) = StickRelease(m, <<axis, -dir>>)
    BY <1>3 DEF AxisChanged
  <2> HIDE DEF m
  <2> QED BY <1>1, <2>1, <2>2, <2>3, StickRepeat
<1> QED BY <1>2, <1>3

LEMMA NextOneRepeat ==
    ASSUME IInv, OneRepeat(ks), [Next]_vars
    PROVE  OneRepeat(ks')
<1>1. Sound(ks)
  BY SoundNow
<1>2. CASE \E axis \in Axes, dir \in Directions \cup {0} : MoveStick(axis, dir)
  <2>1. PICK axis \in Axes, dir \in Directions \cup {0} : MoveStick(axis, dir)
    BY <1>2
  <2>2. ks' = ks \/ ks' = AxisChanged(ks, axis, dir)
    BY <2>1 DEF MoveStick
  <2> QED BY <1>1, <2>2, AxisRepeat
<1>3. CASE \E button \in Buttons : ButtonPressed(button)
  <2>1. PICK button \in Buttons : ButtonPressed(button)
    BY <1>3
  <2> DEFINE held == Press(ks, KeyOf[button])
  <2>2. ks' \in {ks, [held EXCEPT !.mappedButtons = @ \cup {button}]}
    BY <2>1 DEF ButtonPressed
  <2>3. Sound(held) /\ OneRepeat(held)
    BY <1>1, KnownKeys, KeySound, InputRepeat DEF Press
  <2> HIDE DEF held
  <2>4. OneRepeat([held EXCEPT !.mappedButtons = @ \cup {button}])
    BY <2>3 DEF OneRepeat, Sound, KeyStates
  <2> QED BY <2>2, <2>4
<1>4. CASE \E button \in Buttons \cup Triggers : ButtonReleased(button)
  <2>1. PICK button \in Buttons \cup Triggers : ButtonReleased(button)
    BY <1>4
  <2> DEFINE forgotten == [ks EXCEPT !.mappedButtons = @ \ {button}]
  <2>2. ks' \in {ks, Release(forgotten, KeyOf[button])}
    BY <2>1 DEF ButtonReleased
  <2>3. Sound(forgotten) /\ OneRepeat(forgotten)
    BY <1>1 DEF OneRepeat, Sound, TokenHasTimer, KeyStates
  <2> HIDE DEF forgotten
  <2>4. OneRepeat(Release(forgotten, KeyOf[button]))
    BY <2>3, KnownKeys, InputRepeat DEF Release
  <2> QED BY <2>2, <2>4
<1>5. CASE \E trigger \in Triggers : TriggerPressed(trigger)
  <2>1. PICK trigger \in Triggers : TriggerPressed(trigger)
    BY <1>5
  <2> DEFINE held == Press(ks, KeyOf[trigger])
  <2>2. ks' \in {ks, Release(held, KeyOf[trigger])}
    BY <2>1 DEF TriggerPressed
  <2>3. Sound(held) /\ OneRepeat(held)
    BY <1>1, KnownKeys, KeySound, InputRepeat DEF Press
  <2> HIDE DEF held
  <2>4. OneRepeat(Release(held, KeyOf[trigger]))
    BY <2>3, KnownKeys, InputRepeat DEF Release
  <2> QED BY <2>2, <2>4
<1>6. CASE ModeReleased \/ \E app \in Apps, toggled \in BOOLEAN : ModePressed(app, toggled)
  <2>1. ks' \in {ks} \cup {HandleUserBinding(ks, BtnMode, isPress) : isPress \in BOOLEAN}
    BY <1>6 DEF ModePressed, ModeReleased
  <2>2. \A isPress \in BOOLEAN : OneRepeat(HandleUserBinding(ks, BtnMode, isPress))
    BY <1>1, KnownKeys, HandleRepeat
  <2> QED BY <2>1, <2>2
<1>7. CASE \E key \in KeyboardKeys : KeyPressed(key) \/ KeyReleased(key)
  <2>1. PICK key \in KeyboardKeys : KeyPressed(key) \/ KeyReleased(key)
    BY <1>7
  <2>2. ks' = Press(ks, key) \/ ks' = Release(ks, key)
    BY <2>1 DEF KeyPressed, KeyReleased
  <2> QED BY <1>1, <2>2, KnownKeys, InputRepeat DEF Press, Release
<1>8. CASE Unplug \/ CreateFrame \/ UNCHANGED vars
           \/ \E app \in Apps \cup {NoApp} : Focus(app)
  <2>1. ks' = ks
    BY <1>8 DEF Unplug, CreateFrame, Focus, vars
  <2> QED BY <2>1
<1> QED BY <1>2, <1>3, <1>4, <1>5, <1>6, <1>7, <1>8 DEF Next

----------------------------------------------------------------------------
(* Theorems about sources. *)

\* Whichever of two sources of a key lets go first, and whatever window is active by
\* then, no key is held down in the keyboard that nothing will release.
THEOREM PressedHaveSource == Spec => []PressedHasSource
<1>1. SourceInv => PressedHasSource
  BY DEF SourceInv
<1> QED BY AlwaysSourceInv, <1>1, PTL

\* Bindings are compared with keys that are pressed, or whose release went to a
\* surface that inhibits shortcuts; keys that switch terminals are never among them.
THEOREM ActiveKeysArePressed == Spec => []ActiveKeysPressed
<1>1. SourceInv => ActiveKeysPressed
  BY DEF SourceInv
<1> QED BY AlwaysSourceInv, <1>1, PTL

\* For any gamepad, keyboard, windows and bindings, those that repeat for the same keys
\* among them: no key outlives its source in any of the three places the code keeps
\* keys in, and of the timers only those are lost that repeat beside another.
THEOREM SourcesKept == Spec => []KeysHaveSource
<1> DEFINE Inv == SourceInv /\ OneRepeat(ks)
<1>1. Init => Inv
  <2>1. Init => OneRepeat(ks)
    BY DEF Init, OneRepeat
  <2> QED BY <2>1, InitSourceInv
<1>2. Inv /\ [Next]_vars => Inv'
  BY NextSourceInv, NextOneRepeat DEF SourceInv
<1>3. Inv => KeysHaveSource
  BY DEF SourceInv, OneRepeat, KeysHaveSource, RepeatHasKeys
<1> QED BY <1>1, <1>2, <1>3, PTL DEF Spec

----------------------------------------------------------------------------
(* TouchInput.  What the functions of the touch state keep.                *)

\* The touch was recognised as a drag or as a gesture of the handle.
MovedTouch(t) == t.isDrag \/ (t.handle /\ t.dir # "none")

\* Whether a drag or gesture has begun decides what a release means.
OngoingMoved(t) == t.ongoing => MovedTouch(t)

SoundTouch(t) == t \in TouchStates /\ OngoingMoved(t)

\* All that deciding on the action leaves alone.
SameTouch(t, u) ==
    /\ u.slot = t.slot /\ u.position = t.position /\ u.velocity = t.velocity
    /\ u.input = t.input /\ u.tap = t.tap /\ u.velocityTimer = t.velocityTimer
    /\ u.clients = t.clients /\ u.ongoing = t.ongoing /\ u.cut = t.cut
    /\ u.ran = t.ran /\ u.singleTaps = t.singleTaps /\ u.token = t.token

Decided(t, a) ==
    /\ a.ts \in TouchStates /\ SameTouch(t, a.ts)
    /\ a.kind \in {"none", "tap", "double", "drag", "handle", "user"}
    /\ MovedTouch(t) => MovedTouch(a.ts)
    /\ a.kind \in {"drag", "handle"} => MovedTouch(a.ts)
    /\ a.kind = "none" => Touching(t)
    /\ a.kind \in {"tap", "double"} => ~MovedTouch(t) /\ ~Touching(t)
    /\ a.kind = "user" => ~Touching(t)

LEMMA ActionLemma ==
    ASSUME NEW t \in TouchStates
    PROVE  Decided(t, Action(t))
<1>1. Direction(t) \in {"none", "vertical", "horizontal"}
  BY DEF Direction, FromPoints, TouchStates
<1>2. CASE Direction(t) # "none"
  <2> DEFINE u == [t EXCEPT !.dir = Direction(t)]
  <2>1. Action(t) = [kind |-> "handle", ts |-> u]
    BY <1>2 DEF Action
  <2>2. t.handle
    BY <1>2 DEF Direction
  <2>3. u \in TouchStates /\ SameTouch(t, u) /\ u.dir = Direction(t) /\ u.handle = t.handle
    BY <1>1 DEF TouchStates, SameTouch
  <2> HIDE DEF u
  <2>4. Action(t).kind = "handle" /\ Action(t).ts = u
    BY <2>1
  <2> QED BY <1>2, <2>2, <2>3, <2>4 DEF Decided, MovedTouch
<1>3. CASE Direction(t) = "none"
  <2>1. ~(t.handle /\ t.dir # "none")
    BY <1>3 DEF Direction
  <2>2. CASE CompletesGesture(t)
    <3>1. Action(t).kind = "user" /\ Action(t).ts = t
      BY <1>3, <2>2 DEF Action
    <3>2. ~Touching(t)
      BY <2>2 DEF CompletesGesture
    <3> QED BY <3>1, <3>2 DEF Decided, SameTouch
  <2>3. CASE ~CompletesGesture(t) /\ (t.isDrag \/ t.start # t.position \/ t.held)
    <3> DEFINE u == [t EXCEPT !.isDrag = TRUE]
    <3>1. Action(t) = [kind |-> "drag", ts |-> u]
      BY <1>3, <2>3 DEF Action
    <3>2. u \in TouchStates /\ SameTouch(t, u) /\ u.isDrag
      BY DEF TouchStates, SameTouch
    <3> HIDE DEF u
    <3>3. Action(t).kind = "drag" /\ Action(t).ts = u
      BY <3>1
    <3> QED BY <3>2, <3>3 DEF Decided, MovedTouch
  <2>4. CASE ~CompletesGesture(t) /\ ~(t.isDrag \/ t.start # t.position \/ t.held)
             /\ Touching(t)
    <3>1. Action(t).kind = "none" /\ Action(t).ts = t
      BY <1>3, <2>4 DEF Action
    <3> QED BY <2>4, <3>1 DEF Decided, SameTouch
  <2>5. CASE ~CompletesGesture(t) /\ ~(t.isDrag \/ t.start # t.position \/ t.held)
             /\ ~Touching(t)
    <3> DEFINE u == [t EXCEPT !.lastTap = NoPlace]
               kind == IF t.lastTap = t.position THEN "double" ELSE "tap"
    <3>1. Action(t) = [kind |-> kind, ts |-> u]
      BY <1>3, <2>5 DEF Action
    <3>2. /\ u \in TouchStates /\ SameTouch(t, u)
          /\ u.isDrag = t.isDrag /\ u.handle = t.handle /\ u.dir = t.dir
      BY DEF TouchStates, SameTouch
    <3> HIDE DEF u
    <3>3. Action(t).kind \in {"tap", "double"} /\ Action(t).ts = u
      BY <3>1
    <3>4. ~MovedTouch(t)
      BY <2>1, <2>5 DEF MovedTouch
    <3> QED BY <2>5, <3>2, <3>3, <3>4 DEF Decided
  <2> QED BY <2>2, <2>3, <2>4, <2>5
<1> QED BY <1>1, <1>2, <1>3

\* What an update of the position may do: it takes clients and the timer away, it
\* runs a gesture of the user only after the touch, stops the velocity then and
\* cuts off what is ongoing, and a drag or gesture that goes on after its touch
\* has velocity.
Updated(t, u) ==
    /\ SoundTouch(u)
    /\ u.slot = t.slot /\ u.input = t.input
    /\ u.clients \in {t.clients, {}}
    /\ u.velocityTimer => t.velocityTimer
    /\ \/ /\ u.ran = t.ran /\ u.cut = t.cut
          /\ u.ongoing /\ ~Touching(t) =>
               u.velocity /\ u.velocityTimer = t.velocityTimer /\ t.velocity
       \/ /\ u.ran = t.ran + 1 /\ ~Touching(t) /\ ~u.velocityTimer /\ ~u.velocity
          /\ u.ongoing = t.ongoing /\ u.cut = t.ongoing

LEMMA UpdateLemma ==
    ASSUME NEW t, SoundTouch(t), NEW edge \in BOOLEAN
    PROVE  Updated(t, UpdatePosition(t, edge))
<1> DEFINE kind == Action(t).kind
           m == Action(t).ts
<1>1. Decided(t, Action(t))
  BY ActionLemma DEF SoundTouch
<1>2. /\ m \in TouchStates /\ SameTouch(t, m)
      /\ kind \in {"none", "tap", "double", "drag", "handle", "user"}
      /\ OngoingMoved(m)
      /\ kind \in {"drag", "handle"} => MovedTouch(m)
      /\ kind = "none" => Touching(t)
      /\ kind \in {"tap", "double"} => ~t.ongoing /\ ~Touching(t)
      /\ kind = "user" => ~Touching(t)
  BY <1>1 DEF Decided, SoundTouch, OngoingMoved, SameTouch
<1>3. UpdatePosition(t, edge) =
        CASE kind = "drag" -> OnDrag(m, edge)
          [] kind = "handle" -> OnHandleGesture(m, edge)
          [] kind = "user" -> OnUserGesture(m)
          [] kind \in {"none", "tap", "double"} -> m
  BY DEF UpdatePosition
<1> HIDE DEF kind, m
<1>4. CASE kind = "drag"
  <2> DEFINE d == IF edge THEN CancelVelocity(m) ELSE m
             u == [d EXCEPT !.ongoing = Touching(d) \/ d.velocity]
  <2>1. UpdatePosition(t, edge) = u
    BY <1>3, <1>4 DEF OnDrag
  <2>2. /\ d \in TouchStates /\ MovedTouch(d) /\ d.slot = t.slot /\ d.input = t.input
        /\ d.clients = t.clients /\ d.ran = t.ran /\ d.cut = t.cut
        /\ d.velocityTimer => t.velocityTimer
        /\ d.velocity => t.velocity /\ d.velocityTimer = t.velocityTimer
    BY <1>2, <1>4, ZenonT(30) DEF CancelVelocity, TouchStates, SameTouch, MovedTouch
  <2> HIDE DEF d
  <2>3. Touching(d) = Touching(t) /\ d.velocity \in BOOLEAN /\ Touching(d) \in BOOLEAN
    BY <2>2 DEF Touching, TouchStates
  <2>4. /\ u \in TouchStates /\ MovedTouch(u) /\ u.slot = d.slot /\ u.input = d.input
        /\ u.clients = d.clients /\ u.ran = d.ran /\ u.cut = d.cut
        /\ u.velocityTimer = d.velocityTimer
        /\ u.velocity = d.velocity /\ u.ongoing = (Touching(d) \/ d.velocity)
    BY <2>2, <2>3 DEF TouchStates, MovedTouch
  <2> HIDE DEF u
  <2> QED BY <2>1, <2>2, <2>3, <2>4 DEF Updated, SoundTouch, OngoingMoved
<1>5. CASE kind = "handle"
  <2>1. \/ /\ UpdatePosition(t, edge) = [m EXCEPT !.ongoing = TRUE, !.clients = {}]
           /\ Touching(m) \/ m.velocity
        \/ UpdatePosition(t, edge)
             = [CancelVelocity(m) EXCEPT !.ongoing = FALSE, !.clients = {}]
    BY <1>3, <1>5 DEF OnHandleGesture
  <2>2. CASE /\ UpdatePosition(t, edge) = [m EXCEPT !.ongoing = TRUE, !.clients = {}]
             /\ Touching(m) \/ m.velocity
    <3> DEFINE u == [m EXCEPT !.ongoing = TRUE, !.clients = {}]
    <3>1. /\ u \in TouchStates /\ MovedTouch(u) /\ u.slot = t.slot /\ u.input = t.input
          /\ u.clients = {} /\ u.ran = t.ran /\ u.cut = t.cut
          /\ u.velocityTimer = t.velocityTimer /\ u.velocity = t.velocity /\ (Touching(t) \/ t.velocity)
      BY <1>2, <1>5, <2>2 DEF TouchStates, SameTouch, MovedTouch, Touching
    <3> HIDE DEF u
    <3> QED BY <2>2, <3>1 DEF Updated, SoundTouch, OngoingMoved, u
  <2>3. CASE UpdatePosition(t, edge)
               = [CancelVelocity(m) EXCEPT !.ongoing = FALSE, !.clients = {}]
    <3> DEFINE u == [CancelVelocity(m) EXCEPT !.ongoing = FALSE, !.clients = {}]
    <3>1. /\ u \in TouchStates /\ u.slot = t.slot /\ u.input = t.input
          /\ u.clients = {} /\ u.ran = t.ran /\ u.cut = t.cut
          /\ ~u.velocityTimer /\ ~u.ongoing
      BY <1>2 DEF TouchStates, SameTouch, CancelVelocity
    <3> HIDE DEF u
    <3> QED BY <2>3, <3>1 DEF Updated, SoundTouch, OngoingMoved, u
  <2> QED BY <2>1, <2>2, <2>3
<1>6. CASE kind = "user"
  <2> DEFINE n == CancelVelocity(m)
             u == [n EXCEPT !.ran = n.ran + 1, !.cut = m.ongoing, !.clients = {}]
  <2>1. UpdatePosition(t, edge) = u
    BY <1>3, <1>6 DEF OnUserGesture
  <2>3. /\ n \in TouchStates /\ n.slot = t.slot /\ n.input = t.input
        /\ n.ran = t.ran /\ n.ran \in Nat /\ ~n.velocityTimer /\ ~n.velocity
        /\ n.ongoing = t.ongoing /\ m.ongoing = t.ongoing /\ m.ongoing \in BOOLEAN
        /\ MovedTouch(n) = MovedTouch(m)
    BY <1>2 DEF TouchStates, SameTouch, CancelVelocity, MovedTouch
  <2> HIDE DEF n
  <2>2. /\ u \in TouchStates /\ u.slot = t.slot /\ u.input = t.input
        /\ u.clients = {} /\ u.ran = t.ran + 1 /\ ~u.velocityTimer /\ ~u.velocity
        /\ u.ongoing = t.ongoing /\ u.cut = t.ongoing /\ MovedTouch(u) = MovedTouch(m)
    <3>1. n.ran + 1 \in Nat
      BY <2>3
    <3> QED BY <2>3, <3>1 DEF TouchStates, MovedTouch
  <2> HIDE DEF u
  <2>4. OngoingMoved(u)
    BY <1>2, <2>2, <2>3 DEF OngoingMoved
  <2> QED BY <1>2, <1>6, <2>1, <2>2, <2>4 DEF Updated, SoundTouch
<1>7. CASE kind \in {"none", "tap", "double"}
  <2>1. UpdatePosition(t, edge) = m
    BY <1>3, <1>7
  <2> QED BY <1>2, <1>7, <2>1 DEF Updated, SoundTouch, SameTouch
<1> QED BY <1>2, <1>4, <1>5, <1>6, <1>7

----------------------------------------------------------------------------
(* TouchInput.  The velocity: what VelocityEnds says, and why a gesture of  *)
(* the user runs once: none ran while there is a touch or a timer to run it.*)

Coasting(t) ==
    /\ Touching(t) => ~t.velocityTimer
    /\ t.ongoing /\ ~Touching(t) => t.velocityTimer = ~t.cut
    /\ t.cut => t.ongoing /\ ~Touching(t)
    /\ t.ran <= 1
    /\ Touching(t) \/ t.velocityTimer => t.ran = 0

GoodTouch(t) == SoundTouch(t) /\ Coasting(t)

\* What a tap leaves alone.
Tapped(t, u) ==
    /\ u \in TouchStates
    /\ u.slot = t.slot /\ u.velocityTimer = t.velocityTimer
    /\ u.ongoing = t.ongoing /\ u.cut = t.cut
    /\ u.ran = t.ran /\ u.isDrag = t.isDrag /\ u.handle = t.handle /\ u.dir = t.dir
    /\ u.clients \subseteq t.clients

LEMMA TappedGood ==
    ASSUME NEW t, GoodTouch(t), NEW u, Tapped(t, u)
    PROVE  GoodTouch(u)
BY DEF Tapped, GoodTouch, SoundTouch, Coasting, OngoingMoved, MovedTouch, Touching

LEMMA TapLemma ==
    ASSUME NEW t \in TouchStates, NEW slot \in AllSlots
    PROVE  Tapped(t, OnTap(t, slot)) /\ Tapped(t, OnDoubleTap(t, slot))
<1>1. ASSUME NEW m \in TouchStates, Tapped(t, m)
      PROVE  Tapped(t, ReplayIgnoredTap(m, slot))
  <2>1. CASE m.tap = NoSurface
    BY <1>1, <2>1 DEF ReplayIgnoredTap
  <2>2. CASE m.tap # NoSurface
    <3> DEFINE focus == IF m.tap \in DenyFocus THEN m.focus ELSE m.tap
               d == [m EXCEPT !.focus = focus, !.clients = m.clients \cup {slot}]
               u == [d EXCEPT !.clients = d.clients \ {slot}]
    <3>1. ReplayIgnoredTap(m, slot) = u
      BY <2>2 DEF ReplayIgnoredTap, OnSurfaceDown
    <3>2. focus \in SurfaceOrNone
      BY DEF TouchStates
    <3> HIDE DEF focus
    <3>3. /\ d \in TouchStates /\ d.clients = m.clients \cup {slot}
          /\ d.slot = m.slot /\ d.velocityTimer = m.velocityTimer
          /\ d.ongoing = m.ongoing /\ d.cut = m.cut
          /\ d.ran = m.ran /\ d.isDrag = m.isDrag /\ d.handle = m.handle /\ d.dir = m.dir
      BY <3>2 DEF TouchStates
    <3> HIDE DEF d
    <3>4. /\ u \in TouchStates /\ u.clients \subseteq m.clients
          /\ u.slot = m.slot /\ u.velocityTimer = m.velocityTimer
          /\ u.ongoing = m.ongoing /\ u.cut = m.cut
          /\ u.ran = m.ran /\ u.isDrag = m.isDrag /\ u.handle = m.handle /\ u.dir = m.dir
      BY <3>3 DEF TouchStates
    <3> QED BY <1>1, <3>1, <3>4 DEF Tapped
  <2> QED BY <2>1, <2>2
<1>2. Tapped(t, OnTap(t, slot))
  <2> DEFINE r == ReplayIgnoredTap(t, slot)
             u == [r EXCEPT !.singleTaps = r.singleTaps + 1, !.token = TRUE,
                            !.lastTap = t.position]
  <2>1. Tapped(t, r)
    BY <1>1 DEF Tapped
  <2>2. OnTap(t, slot) = u
    BY DEF OnTap
  <2> HIDE DEF r
  <2>3. r \in TouchStates /\ r.singleTaps \in Nat /\ t.position \in Places
    BY <2>1 DEF Tapped, TouchStates
  <2>4. /\ u \in TouchStates /\ u.clients = r.clients
        /\ u.slot = r.slot /\ u.velocityTimer = r.velocityTimer
        /\ u.ongoing = r.ongoing /\ u.cut = r.cut
        /\ u.ran = r.ran /\ u.isDrag = r.isDrag /\ u.handle = r.handle /\ u.dir = r.dir
    <3>1. r.singleTaps + 1 \in Nat /\ t.position \in Places \cup {NoPlace}
      BY <2>3
    <3> QED BY <2>3, <3>1 DEF TouchStates
  <2> QED BY <2>1, <2>2, <2>4 DEF Tapped
<1>3. Tapped(t, OnDoubleTap(t, slot))
  <2> DEFINE taps == IF t.token /\ t.singleTaps > 0 THEN t.singleTaps - 1 ELSE t.singleTaps
             c == [t EXCEPT !.token = FALSE, !.singleTaps = taps]
             r == ReplayIgnoredTap(c, slot)
             u == [r EXCEPT !.focus = NoSurface]
  <2>1. OnDoubleTap(t, slot) \in {r, u}
    BY DEF OnDoubleTap, CancelSingleTap, ClearFocusOutside
  <2>2. taps \in Nat
    BY DEF TouchStates
  <2> HIDE DEF taps
  <2>3. c \in TouchStates /\ Tapped(t, c)
    BY <2>2 DEF TouchStates, Tapped
  <2> HIDE DEF c
  <2>4. Tapped(t, r)
    BY <1>1, <2>3
  <2> HIDE DEF r
  <2>5. r \in TouchStates
    BY <2>4 DEF Tapped
  <2>6. /\ u \in TouchStates /\ u.clients = r.clients
        /\ u.slot = r.slot /\ u.velocityTimer = r.velocityTimer
        /\ u.ongoing = r.ongoing /\ u.cut = r.cut
        /\ u.ran = r.ran /\ u.isDrag = r.isDrag /\ u.handle = r.handle /\ u.dir = r.dir
    BY <2>5 DEF TouchStates, SurfaceOrNone
  <2>7. Tapped(t, u)
    BY <2>4, <2>6 DEF Tapped
  <2> QED BY <2>1, <2>4, <2>7
<1> QED BY <1>2, <1>3

\* A touch that starts has no velocity to start with; a second one ends both.
LEMMA StartLemma ==
    ASSUME NEW t, GoodTouch(t), NEW slot \in AllSlots, NEW place \in Places, NEW u,
           u = Start(t, slot, place)
    PROVE  /\ GoodTouch(u) /\ u.clients = t.clients
           /\ Touching(t) => u.slot = NoSlot
           /\ ~Touching(t) => u.slot = slot
<1>1. CASE Touching(t)
  <2> DEFINE n == [t EXCEPT !.slot = NoSlot, !.lastTap = NoPlace, !.cut = t.ongoing]
  <2>1. u = n
    BY <1>1 DEF Start
  <2>2. /\ n \in TouchStates /\ n.slot = NoSlot /\ n.clients = t.clients
        /\ n.ongoing = t.ongoing /\ n.cut = t.ongoing /\ t.ongoing \in BOOLEAN
        /\ n.velocityTimer = t.velocityTimer /\ n.ran = t.ran /\ n.velocityTimer \in BOOLEAN
        /\ MovedTouch(n) = MovedTouch(t)
    BY DEF GoodTouch, SoundTouch, TouchStates, SlotOrNone, MovedTouch
  <2> HIDE DEF n
  <2> QED BY <1>1, <2>1, <2>2
          DEF GoodTouch, SoundTouch, Coasting, OngoingMoved, Touching
<1>2. CASE ~Touching(t)
  <2> DEFINE c == CancelVelocity(t)
             n == [c EXCEPT
                     !.slot = slot, !.start = place, !.position = place,
                     !.handle = place \in HandlePlaces, !.dir = "none",
                     !.held = FALSE, !.isDrag = FALSE, !.ran = 0, !.ongoing = FALSE,
                     !.cut = FALSE]
  <2>1. u = n
    BY <1>2 DEF Start
  <2>2. c \in TouchStates /\ ~c.velocityTimer /\ c.clients = t.clients
    BY DEF GoodTouch, SoundTouch, TouchStates, CancelVelocity
  <2> HIDE DEF c
  <2>3. (place \in HandlePlaces) \in BOOLEAN
    OBVIOUS
  <2>4. /\ n \in TouchStates /\ n.slot = slot /\ ~n.ongoing /\ ~n.cut
        /\ n.clients = c.clients /\ ~n.velocityTimer /\ n.ran = 0
    BY <2>2, <2>3 DEF TouchStates, SlotOrNone
  <2> HIDE DEF n
  <2> QED BY <1>2, <2>1, <2>2, <2>4
          DEF GoodTouch, SoundTouch, Coasting, OngoingMoved, Touching
<1> QED BY <1>1, <1>2

\* A touch is the client's whose surface it hits, or nobody's.
LEMMA DownLemma ==
    ASSUME GoodTouch(ts), NEW slot \in AllSlots, NEW place \in Places, TouchDown(slot, place)
    PROVE  /\ GoodTouch(ts')
           /\ Touching(ts) => ts'.slot = NoSlot
           /\ ~Touching(ts) => ts'.slot = slot
           /\ ts'.clients \subseteq ts.clients \cup {slot}
           /\ ts'.clients \subseteq ts.clients \/ ts'.input # NoSurface
<1> DEFINE t == Start(ts, slot, place)
<1>1. /\ GoodTouch(t) /\ t.clients = ts.clients
      /\ Touching(ts) => t.slot = NoSlot
      /\ ~Touching(ts) => t.slot = slot
  BY StartLemma
<1> HIDE DEF t
<1>2. PICK surface \in SurfaceOrNone :
        LET idle == [t EXCEPT !.input = NoSurface, !.tap = NoSurface, !.app = AppId(surface)]
            gesture == \/ t.handle
                       \/ /\ surface \notin Inhibiting
                          /\ MatchingGestures(AppId(surface), place) # {}
        IN  ts' = IF surface = NoSurface THEN idle
                  ELSE IF gesture THEN [idle EXCEPT !.tap = surface]
                  ELSE OnSurfaceDown([idle EXCEPT !.input = surface], surface, slot)
  BY DEF TouchDown, t
<1> DEFINE idle == [t EXCEPT !.input = NoSurface, !.tap = NoSurface, !.app = AppId(surface)]
           given == [idle EXCEPT !.tap = surface]
           hit == [idle EXCEPT !.input = surface]
           focus == IF surface \in DenyFocus THEN hit.focus ELSE surface
           told == [hit EXCEPT !.focus = focus, !.clients = hit.clients \cup {slot}]
<1>3. ts' \in {idle, given} \/ (surface # NoSurface /\ ts' = told)
  BY <1>2 DEF OnSurfaceDown
<1>4. AppId(surface) \in SurfaceOrNone /\ NoSurface \in SurfaceOrNone
  BY DEF AppId, SurfaceOrNone
<1>5. t \in TouchStates
  BY <1>1 DEF GoodTouch, SoundTouch
<1>6. Tapped(t, idle) /\ idle.clients = t.clients
  BY <1>4, <1>5 DEF Tapped, TouchStates
<1> HIDE DEF idle
<1>7. Tapped(t, given)
  BY <1>6 DEF Tapped, TouchStates
<1>8. hit \in TouchStates /\ Tapped(t, hit) /\ hit.clients = t.clients /\ hit.input = surface
  BY <1>6 DEF Tapped, TouchStates
<1> HIDE DEF given, hit
<1>9. focus \in SurfaceOrNone
  BY <1>8 DEF TouchStates
<1> HIDE DEF focus
<1>10. /\ told \in TouchStates /\ told.clients = t.clients \cup {slot} /\ told.input = surface
       /\ told.slot = hit.slot /\ told.velocityTimer = hit.velocityTimer
       /\ told.ongoing = hit.ongoing /\ told.cut = hit.cut /\ told.ran = hit.ran /\ told.isDrag = hit.isDrag
       /\ told.handle = hit.handle /\ told.dir = hit.dir
  BY <1>8, <1>9 DEF TouchStates
<1> HIDE DEF told
<1>11. GoodTouch(told) /\ told.slot = t.slot
  BY <1>1, <1>8, <1>10
     DEF Tapped, GoodTouch, SoundTouch, Coasting, OngoingMoved, MovedTouch, Touching
<1>12. GoodTouch(idle) /\ GoodTouch(given)
  BY <1>1, <1>6, <1>7, TappedGood
<1>13. CASE ts' \in {idle, given}
  BY <1>1, <1>6, <1>7, <1>12, <1>13 DEF Tapped
<1>14. CASE surface # NoSurface /\ ts' = told
  BY <1>1, <1>10, <1>11, <1>14
<1> QED BY <1>3, <1>13, <1>14

\* A touch that is updated: the timer runs on with the velocity.
LEMMA LiftedGood ==
    ASSUME NEW t, SoundTouch(t), ~Touching(t), t.ran = 0, ~t.cut,
           t.velocity => t.velocityTimer, NEW u, Updated(t, u)
    PROVE  GoodTouch(u)
BY DEF Updated, GoodTouch, Coasting, SoundTouch, TouchStates, Touching

LEMMA UpLemma ==
    ASSUME GoodTouch(ts), NEW slot \in AllSlots, TouchUp(slot)
    PROVE  /\ GoodTouch(ts')
           /\ ts.slot # slot => ts'.slot = ts.slot
           /\ ts.slot = slot => ts'.slot = NoSlot
           /\ ts'.clients \subseteq ts.clients
           /\ ts.input # NoSurface => slot \notin ts'.clients
           /\ ts.slot # slot => ts'.input = ts.input
<1> DEFINE told == [ts EXCEPT !.clients = ts.clients \ {slot}]
           notified == IF ts.input = NoSurface THEN ts ELSE told
           lifted == [notified EXCEPT !.slot = NoSlot]
           action == Action(lifted)
<1>1. ts \in TouchStates
  BY DEF GoodTouch, SoundTouch
<1>2. Tapped(ts, told) /\ told.clients = ts.clients \ {slot} /\ told.input = ts.input
  BY <1>1 DEF Tapped, TouchStates
<1>3. Tapped(ts, ts)
  BY <1>1 DEF Tapped
<1> HIDE DEF told
<1>4. /\ Tapped(ts, notified) /\ notified.input = ts.input
      /\ ts.input # NoSurface => slot \notin notified.clients
  BY <1>2, <1>3
<1> HIDE DEF notified
<1>5. GoodTouch(notified)
  BY <1>4, TappedGood
<1>6. CASE ts.slot # slot
  <2>1. ts' = notified
    BY <1>6 DEF TouchUp, told, notified
  <2> QED BY <1>4, <1>5, <1>6, <2>1 DEF Tapped
<1>7. CASE ts.slot = slot
  <2>1. Touching(notified) /\ notified.slot = slot
    BY <1>4, <1>7, TouchAssumption DEF Tapped, Touching, AllSlots
  <2>2. notified.ran = 0 /\ ~notified.velocityTimer /\ ~notified.cut
    BY <1>5, <2>1 DEF GoodTouch, Coasting
  <2>3. /\ lifted \in TouchStates /\ lifted.slot = NoSlot /\ lifted.ran = 0
        /\ ~lifted.velocityTimer /\ ~lifted.cut /\ lifted.clients = notified.clients
        /\ lifted.ongoing = notified.ongoing /\ lifted.isDrag = notified.isDrag
        /\ lifted.handle = notified.handle /\ lifted.dir = notified.dir
    BY <2>2, <1>5 DEF GoodTouch, SoundTouch, TouchStates, SlotOrNone
  <2>4. SoundTouch(lifted) /\ ~Touching(lifted)
    BY <1>5, <2>3 DEF GoodTouch, SoundTouch, OngoingMoved, MovedTouch, Touching
  <2>5. \/ action.kind = "tap" /\ ts' = OnTap(action.ts, slot)
        \/ action.kind = "double" /\ ts' = OnDoubleTap(action.ts, slot)
        \/ /\ action.kind \in {"drag", "handle", "user"}
           /\ \E edge \in BOOLEAN :
                ts' = UpdatePosition(AddVelocityTimeout(action.ts), edge)
    BY <1>7 DEF TouchUp, told, notified
  <2> HIDE DEF lifted
  <2>6. Decided(lifted, action)
    BY <2>3, ActionLemma
  <2> HIDE DEF action
  <2>7. /\ action.ts \in TouchStates /\ SameTouch(lifted, action.ts)
        /\ ~Touching(action.ts) /\ SoundTouch(action.ts)
    BY <2>4, <2>6 DEF Decided, SameTouch, SoundTouch, OngoingMoved, Touching
  <2>8. CASE action.kind \in {"tap", "double"}
    <3>1. ~lifted.ongoing
      BY <2>4, <2>6, <2>8 DEF Decided, SoundTouch, OngoingMoved
    <3>2. GoodTouch(action.ts)
      BY <2>3, <2>7, <3>1 DEF GoodTouch, Coasting, SameTouch
    <3>3. Tapped(action.ts, ts')
      BY <2>5, <2>7, <2>8, TapLemma
    <3>4. GoodTouch(ts')
      BY <3>2, <3>3, TappedGood
    <3> QED BY <1>4, <1>7, <2>3, <2>7, <3>3, <3>4 DEF Tapped, SameTouch
  <2>9. CASE action.kind \in {"drag", "handle", "user"}
    <3> DEFINE timed == [action.ts EXCEPT !.velocityTimer = TRUE]
               v == AddVelocityTimeout(action.ts)
    <3>1. PICK edge \in BOOLEAN : ts' = UpdatePosition(v, edge)
      BY <2>5, <2>9
    <3>2. /\ timed \in TouchStates /\ timed.velocityTimer /\ timed.slot = action.ts.slot
          /\ timed.ran = action.ts.ran /\ timed.clients = action.ts.clients
          /\ timed.ongoing = action.ts.ongoing /\ timed.cut = action.ts.cut
          /\ MovedTouch(action.ts) = MovedTouch(timed)
      BY <2>7 DEF TouchStates, MovedTouch
    <3>3. v = IF action.ts.velocity THEN timed ELSE action.ts
      BY DEF AddVelocityTimeout
    <3> HIDE DEF timed, v
    <3>4. /\ SoundTouch(v) /\ ~Touching(v) /\ v.ran = 0 /\ ~v.cut /\ (v.velocity => v.velocityTimer)
          /\ v.slot = NoSlot /\ v.clients = notified.clients
      BY <2>3, <2>7, <3>2, <3>3 DEF SoundTouch, OngoingMoved, Touching, SameTouch
    <3>5. Updated(v, ts')
      BY <3>1, <3>4, UpdateLemma
    <3>6. GoodTouch(ts')
      BY <3>4, <3>5, LiftedGood
    <3> QED BY <1>4, <1>7, <3>4, <3>5, <3>6 DEF Updated, Tapped
  <2> QED BY <2>5, <2>8, <2>9
<1> QED BY <1>6, <1>7

LEMMA MotionLemma ==
    ASSUME GoodTouch(ts), NEW slot \in AllSlots, NEW place \in Places,
           NEW velocity \in BOOLEAN, TouchMotion(slot, place, velocity)
    PROVE  /\ GoodTouch(ts')
           /\ ts'.slot = ts.slot /\ ts'.input = ts.input
           /\ ts'.clients \subseteq ts.clients
<1> DEFINE moved == [ts EXCEPT !.velocity = velocity, !.position = place]
<1>1. /\ moved \in TouchStates /\ moved.slot = ts.slot /\ moved.input = ts.input
      /\ moved.clients = ts.clients /\ moved.velocityTimer = ts.velocityTimer
      /\ moved.ongoing = ts.ongoing /\ moved.cut = ts.cut /\ moved.ran = ts.ran
      /\ MovedTouch(moved) = MovedTouch(ts)
  BY DEF GoodTouch, SoundTouch, TouchStates, MovedTouch
<1>2. \/ ts' = moved
      \/ ts.slot = slot /\ \E edge \in BOOLEAN : ts' = UpdatePosition(moved, edge)
  BY DEF TouchMotion
<1> HIDE DEF moved
<1>3. GoodTouch(moved)
  BY <1>1 DEF GoodTouch, SoundTouch, OngoingMoved, Coasting, Touching
<1>4. CASE ts' = moved
  BY <1>1, <1>3, <1>4
<1>5. CASE ts.slot = slot /\ \E edge \in BOOLEAN : ts' = UpdatePosition(moved, edge)
  <2>1. Touching(moved)
    BY <1>1, <1>5, TouchAssumption DEF Touching, AllSlots
  <2>2. Updated(moved, ts')
    BY <1>3, <1>5, UpdateLemma DEF GoodTouch
  <2>3. GoodTouch(ts')
    BY <1>3, <2>1, <2>2 DEF GoodTouch, Coasting, Updated, Touching
  <2> QED BY <1>1, <2>2, <2>3 DEF Updated
<1> QED BY <1>2, <1>4, <1>5

LEMMA WhileOffLemma ==
    ASSUME GoodTouch(ts), NEW event \in Events, TouchUpWhileOff(event)
    PROVE  GoodTouch(ts') /\ ts'.slot = NoSlot
<1> DEFINE cut == ts.cut \/ (Touching(ts) /\ ts.ongoing)
           lifted == [ts EXCEPT !.slot = NoSlot, !.cut = cut]
           action == Action(lifted)
           tapped == [action.ts EXCEPT !.lastTap = event.place]
<1>1. cut \in BOOLEAN /\ ts.velocityTimer \in BOOLEAN /\ ts.ongoing \in BOOLEAN
  BY DEF GoodTouch, SoundTouch, TouchStates, Touching
<1>2. cut = (ts.ongoing /\ (Touching(ts) \/ ts.cut))
  BY DEF GoodTouch, SoundTouch, Coasting, TouchStates
<1> HIDE DEF cut
<1>3. /\ lifted \in TouchStates /\ lifted.slot = NoSlot /\ lifted.cut = cut
      /\ lifted.ongoing = ts.ongoing /\ MovedTouch(lifted) = MovedTouch(ts)
      /\ lifted.velocityTimer = ts.velocityTimer /\ lifted.ran = ts.ran
  BY <1>1 DEF GoodTouch, SoundTouch, TouchStates, SlotOrNone, MovedTouch
<1>4. ts' \in {lifted, action.ts, tapped}
  BY DEF TouchUpWhileOff, cut
<1> HIDE DEF lifted
<1>5. GoodTouch(lifted)
  BY <1>1, <1>2, <1>3 DEF GoodTouch, SoundTouch, Coasting, OngoingMoved, Touching
<1>6. /\ action.ts \in TouchStates /\ SameTouch(lifted, action.ts)
      /\ MovedTouch(lifted) => MovedTouch(action.ts)
  BY <1>3, ActionLemma DEF Decided
<1> HIDE DEF action
<1>7. GoodTouch(action.ts) /\ action.ts.slot = NoSlot
  BY <1>5, <1>6, <1>3
     DEF GoodTouch, SoundTouch, Coasting, OngoingMoved, SameTouch, Touching
<1>8. event.place \in Places \cup {NoPlace}
  BY DEF Events
<1>9. Tapped(action.ts, tapped)
  BY <1>6, <1>8 DEF Tapped, TouchStates
<1> HIDE DEF tapped
<1>10. GoodTouch(tapped) /\ tapped.slot = NoSlot
  BY <1>7, <1>9, TappedGood DEF Tapped
<1> QED BY <1>3, <1>4, <1>5, <1>7, <1>10

LEMMA TickLemma ==
    ASSUME GoodTouch(ts), VelocityTick
    PROVE  /\ GoodTouch(ts')
           /\ ts'.slot = ts.slot /\ ts'.input = ts.input
           /\ ts'.clients \subseteq ts.clients
<1>1. PICK velocity \in BOOLEAN, place \in Places, edge \in BOOLEAN :
        LET ticked == UpdatePosition([ts EXCEPT !.velocity = velocity,
                                                !.position = place], edge)
        IN  ts' = [ticked EXCEPT !.velocityTimer = ticked.velocity]
  BY DEF VelocityTick
<1> DEFINE moved == [ts EXCEPT !.velocity = velocity, !.position = place]
           ticked == UpdatePosition(moved, edge)
           n == [ticked EXCEPT !.velocityTimer = ticked.velocity]
<1>2. ts' = n
  BY <1>1
<1>3. /\ moved \in TouchStates /\ moved.slot = ts.slot /\ moved.input = ts.input
      /\ moved.clients = ts.clients /\ moved.ongoing = ts.ongoing /\ moved.cut = ts.cut
      /\ moved.ran = ts.ran
      /\ MovedTouch(moved) = MovedTouch(ts)
  BY DEF GoodTouch, SoundTouch, TouchStates, MovedTouch
<1>4. ~Touching(ts) /\ ts.ran = 0 /\ ~ts.cut
  BY DEF VelocityTick, GoodTouch, SoundTouch, TouchStates, Coasting
<1> HIDE DEF moved
<1>5. SoundTouch(moved)
  BY <1>3 DEF GoodTouch, SoundTouch, OngoingMoved
<1>6. Updated(moved, ticked)
  BY <1>5, UpdateLemma
<1> HIDE DEF ticked
<1>7. /\ ticked \in TouchStates /\ ticked.slot = ts.slot /\ ticked.input = ts.input
      /\ ticked.clients \subseteq ts.clients /\ ticked.velocity \in BOOLEAN
      /\ \/ ticked.ran = 0 /\ ~ticked.cut /\ (ticked.ongoing => ticked.velocity)
         \/ ticked.ran = 1 /\ ~ticked.velocity /\ ticked.cut = ticked.ongoing
      /\ OngoingMoved(ticked)
  BY <1>3, <1>4, <1>6 DEF Updated, SoundTouch, TouchStates, Touching
<1>8. /\ n \in TouchStates /\ n.slot = ticked.slot /\ n.input = ticked.input
      /\ n.clients = ticked.clients /\ n.velocityTimer = ticked.velocity
      /\ n.ongoing = ticked.ongoing /\ n.cut = ticked.cut /\ n.ran = ticked.ran
      /\ MovedTouch(n) = MovedTouch(ticked)
  BY <1>7 DEF TouchStates, MovedTouch
<1> HIDE DEF n
<1>9. GoodTouch(n)
  BY <1>4, <1>7, <1>8 DEF GoodTouch, SoundTouch, OngoingMoved, Coasting, Touching
<1> QED BY <1>2, <1>7, <1>8, <1>9

LEMMA TimeLemma ==
    ASSUME GoodTouch(ts), SingleTap \/ TapExpires \/ HoldPasses
    PROVE  Tapped(ts, ts') /\ ts'.input = ts.input
<1>1. ts \in TouchStates
  BY DEF GoodTouch, SoundTouch
<1>2. CASE SingleTap
  <2> DEFINE cleared == [ts EXCEPT !.focus = NoSurface]
             c == ClearFocusOutside(ts)
             n == [c EXCEPT !.singleTaps = c.singleTaps - 1]
  <2>1. ts' = n
    BY <1>2 DEF SingleTap
  <2>2. ts.singleTaps \in Nat /\ ts.singleTaps > 0
    BY <1>1, <1>2 DEF SingleTap, TouchStates
  <2>3. cleared \in TouchStates /\ Tapped(ts, cleared) /\ cleared.input = ts.input
        /\ cleared.singleTaps = ts.singleTaps
    BY <1>1 DEF TouchStates, Tapped, SurfaceOrNone
  <2>4. c \in {ts, cleared}
    BY DEF ClearFocusOutside
  <2> HIDE DEF cleared
  <2>5. c \in TouchStates /\ Tapped(ts, c) /\ c.input = ts.input
        /\ c.singleTaps - 1 \in Nat
    BY <1>1, <2>2, <2>3, <2>4 DEF Tapped
  <2> HIDE DEF c
  <2>6. Tapped(c, n) /\ n.input = c.input
    BY <2>5 DEF Tapped, TouchStates
  <2> HIDE DEF n
  <2> QED BY <2>1, <2>5, <2>6 DEF Tapped
<1>3. CASE TapExpires
  BY <1>1, <1>3 DEF TapExpires, Tapped, TouchStates
<1>4. CASE HoldPasses
  BY <1>1, <1>4 DEF HoldPasses, Tapped, TouchStates
<1> QED BY <1>2, <1>3, <1>4

----------------------------------------------------------------------------
(* TouchInput.  The queue without the events of a cancelled finger. *)

\* A nonempty set of indices has a least one.
LEMMA LeastEvent ==
    ASSUME NEW T \in SUBSET Nat, T # {}
    PROVE  \E m \in T : \A k \in T : m <= k
<1> DEFINE D == {0..n : n \in T}
<1>1. D \subseteq FiniteSubsetsOf(Nat)
  <2>1. \A n \in T : IsFiniteSet(0..n) /\ (0..n) \subseteq Nat
    BY FS_Interval
  <2> QED BY <2>1 DEF FiniteSubsetsOf
<1>2. D # {}
  OBVIOUS
<1>3. PICK x \in D : \A y \in D : <<y, x>> \notin StrictSubsetOrdering(Nat)
  BY <1>1, <1>2, FS_StrictSubsetOrderingWellFounded, WFMin
<1>4. PICK m \in T : x = 0..m
  OBVIOUS
<1>5. ASSUME NEW k \in T, k < m PROVE FALSE
  <2>1. <<0..k, 0..m>> \notin StrictSubsetOrdering(Nat)
    BY <1>3, <1>4
  <2>2. IsFiniteSet(0..m) /\ IsFiniteSet(0..k)
    BY FS_Interval
  <2>3. (0..k) \in SUBSET Nat /\ (0..m) \in SUBSET Nat /\ (0..k) \subseteq (0..m)
    BY <1>5
  <2>4. m \in 0..m /\ m \notin 0..k
    BY <1>5
  <2> QED BY <2>1, <2>2, <2>3, <2>4 DEF StrictSubsetOrdering, FiniteSubsetsOf
<1> QED BY <1>5

\* What one more event adds to those that are retained.
Retained(rest, event, slot) == IF event.slot = slot THEN rest ELSE Append(rest, event)

IsRetainRun(run, n, slot) ==
    run = [k \in 0..n |-> IF k = 0 THEN <<>> ELSE Retained(run[k - 1], queue[k], slot)]

LEMMA RetainRunExists ==
    ASSUME NEW n \in Nat, NEW slot
    PROVE  \E run : IsRetainRun(run, n, slot)
<1> DEFINE bad == {k \in Nat : ~ \E run : IsRetainRun(run, k, slot)}
<1>1. SUFFICES ASSUME bad # {} PROVE FALSE
  OBVIOUS
<1>2. PICK m \in bad : \A k \in bad : m <= k
  BY <1>1, LeastEvent
<1>3. m # 0
  <2>1. IsRetainRun([k \in 0..0 |-> <<>>], 0, slot)
    BY DEF IsRetainRun
  <2> QED BY <2>1
<1>4. PICK p : IsRetainRun(p, m - 1, slot)
  BY <1>2, <1>3
<1> DEFINE q == [k \in 0..m |-> IF k = 0 THEN <<>> ELSE Retained(p[k - 1], queue[k], slot)]
<1>5. \A k \in 0..(m - 1) : q[k] = p[k]
  BY <1>3, <1>4 DEF IsRetainRun
<1>6. IsRetainRun(q, m, slot)
  <2>1. ASSUME NEW k \in 0..m, k # 0 PROVE q[k - 1] = p[k - 1]
    <3>1. k - 1 \in 0..(m - 1)
      BY <2>1
    <3> HIDE DEF q
    <3> QED BY <1>5, <3>1
  <2>2. q = [k \in 0..m |-> IF k = 0 THEN <<>> ELSE Retained(q[k - 1], queue[k], slot)]
    BY <2>1
  <2> HIDE DEF q
  <2> QED BY <2>2 DEF IsRetainRun
<1> QED BY <1>6

LEMMA EventsWithoutTyped ==
    ASSUME queue \in Seq(Events), NEW slot
    PROVE  EventsWithout(slot) \in Seq(Events)
<1> DEFINE n == Len(queue)
           run == CHOOSE rest : IsRetainRun(rest, n, slot)
<1>1. n \in Nat
  OBVIOUS
<1>2. IsRetainRun(run, n, slot)
  BY <1>1, RetainRunExists
<1>3. EventsWithout(slot) = run[n]
  BY DEF EventsWithout, IsRetainRun, Retained
<1>4. \A k \in 1..n : queue[k] \in Events
  OBVIOUS
<1> HIDE DEF n, run
<1>5. /\ run[0] = <<>>
      /\ \A k \in 1..n : run[k] = Retained(run[k - 1], queue[k], slot)
  BY <1>1, <1>2 DEF IsRetainRun
<1> DEFINE bad == {k \in 0..n : run[k] \notin Seq(Events)}
<1>6. ASSUME bad # {} PROVE FALSE
  <2>1. PICK m \in bad : \A k \in bad : m <= k
    <3>1. bad \in SUBSET Nat
      OBVIOUS
    <3> QED BY <1>6, <3>1, LeastEvent
  <2>2. run[0] \in Seq(Events)
    BY <1>5
  <2>3. m \in 1..n /\ m - 1 \in 0..n /\ m - 1 \notin bad
    BY <1>1, <2>1, <2>2
  <2>4. run[m - 1] \in Seq(Events)
    BY <2>3
  <2>5. run[m] \in {run[m - 1], Append(run[m - 1], queue[m])} /\ queue[m] \in Events
    BY <1>4, <1>5, <2>3 DEF Retained
  <2> DEFINE before == run[m - 1]
  <2>6. before \in Seq(Events) /\ run[m] \in {before, Append(before, queue[m])}
    BY <2>4, <2>5
  <2> HIDE DEF before
  <2>7. Append(before, queue[m]) \in Seq(Events)
    BY <2>5, <2>6
  <2>8. run[m] \in Seq(Events)
    BY <2>6, <2>7
  <2> QED BY <2>1, <2>8
<1> QED BY <1>1, <1>3, <1>6

----------------------------------------------------------------------------
(* TouchInput.  Steps and theorems about the type and the velocity. *)

\* Events are only taken from a queue that has some.
FrameHasEvents == frame # "no" => queue # <<>>

TouchInv == TouchTypeOK /\ FrameHasEvents /\ GoodTouch(ts)

LEMMA InitTouchInv == TouchInit => TouchInv
<1> SUFFICES ASSUME TouchInit PROVE TouchInv
  OBVIOUS
<1>1. /\ queue = <<>> /\ frame = "no" /\ displayOn = TRUE /\ fingers = {}
      /\ pressed = FALSE /\ dropped = FALSE /\ crowded = FALSE
  BY DEF TouchInit
<1>2. ts \in TouchStates /\ ts.slot = NoSlot /\ ~ts.ongoing /\ ~ts.cut /\ ~ts.velocityTimer
      /\ ts.ran = 0
  BY DEF TouchInit, TouchStates, SlotOrNone, SurfaceOrNone
<1>3. GoodTouch(ts)
  BY <1>2 DEF GoodTouch, SoundTouch, Coasting, OngoingMoved, Touching
<1>4. TouchTypeOK /\ FrameHasEvents
  <2>1. queue \in Seq(Events)
    BY <1>1
  <2>2. /\ displayOn \in BOOLEAN /\ pressed \in BOOLEAN
        /\ dropped \in BOOLEAN /\ crowded \in BOOLEAN
    BY <1>1, Zenon
  <2> QED BY <1>1, <1>2, <2>1, <2>2 DEF TouchTypeOK, FrameHasEvents
<1> QED BY <1>3, <1>4 DEF TouchInv

\* The events that are handled.
LEMMA HeadTailLemma ==
    ASSUME queue \in Seq(Events), queue # <<>>
    PROVE  /\ Head(queue) \in Events /\ Tail(queue) \in Seq(Events)
           /\ Head(queue).slot \in AllSlots /\ Head(queue).place \in Places
           /\ Len(queue) # 1 => Tail(queue) # <<>>
<1>1. Head(queue) \in Events /\ Tail(queue) \in Seq(Events)
      /\ Len(queue) \in Nat /\ Len(Tail(queue)) = Len(queue) - 1
  OBVIOUS
<1>2. Len(queue) # 1 => Len(Tail(queue)) # Len(<<>>)
  BY <1>1
<1> QED BY <1>1, <1>2 DEF Events

\* The queue grows, or loses its first event, which may end the frame.
LEMMA QueuedStep ==
    ASSUME TouchInv, NEW e \in Events, queue' = Append(queue, e)
    PROVE  queue' \in Seq(Events) /\ queue' # <<>>
<1>1. queue \in Seq(Events) /\ Len(queue) \in Nat
  BY DEF TouchInv, TouchTypeOK
<1>2. queue' \in Seq(Events) /\ Len(queue') = Len(queue) + 1
  BY <1>1
<1>3. Len(queue') # Len(<<>>)
  BY <1>1, <1>2
<1> QED BY <1>2, <1>3

LEMMA HandledStep ==
    ASSUME TouchInv, frame # "no", Handled
    PROVE  queue' \in Seq(Events) /\ FrameHasEvents' /\ frame' \in {"no", "on", "off"}
<1>1. queue # <<>> /\ queue \in Seq(Events) /\ frame \in {"no", "on", "off"}
  BY DEF TouchInv, TouchTypeOK, FrameHasEvents
<1> QED BY <1>1, HeadTailLemma DEF Handled, FrameHasEvents

LEMMA QueueingStep ==
    ASSUME TouchInv,
           \/ \E slot \in Slots, place \in Places : FingerDown(slot, place) \/ FingerMotion(slot, place)
           \/ \E slot \in Slots : FingerUp(slot) \/ FingerCancel(slot)
           \/ TouchFrame
    PROVE  TouchInv'
<1>1. TouchTypeOK /\ GoodTouch(ts) /\ ts \in TouchStates /\ queue \in Seq(Events)
  BY DEF TouchInv, TouchTypeOK
<1>2. ASSUME NEW slot \in Slots, NEW place \in Places, NEW ty \in {"down", "up", "motion"}
      PROVE  Event(ty, slot, place) \in Events
  BY DEF Event, Events, AllSlots
<1>3. ts.position \in Places
  BY <1>1 DEF TouchStates
<1>4. CASE \E slot \in Slots, place \in Places : FingerDown(slot, place)
  <2>1. PICK slot \in Slots, place \in Places : FingerDown(slot, place)
    BY <1>4
  <2>2. Event("down", slot, place) \in Events
    BY <1>2
  <2>3. queue' \in Seq(Events) /\ queue' # <<>>
    BY <2>1, <2>2, QueuedStep DEF FingerDown
  <2> QED BY <1>1, <2>1, <2>3 DEF FingerDown, TouchInv, TouchTypeOK, FrameHasEvents
<1>5. CASE \E slot \in Slots, place \in Places : FingerMotion(slot, place)
  <2>1. PICK slot \in Slots, place \in Places : FingerMotion(slot, place)
    BY <1>5
  <2>2. Event("motion", slot, place) \in Events
    BY <1>2
  <2>3. queue' \in Seq(Events) /\ queue' # <<>>
    BY <2>1, <2>2, QueuedStep DEF FingerMotion
  <2> QED BY <1>1, <2>1, <2>3 DEF FingerMotion, TouchInv, TouchTypeOK, FrameHasEvents
<1>6. CASE \E slot \in Slots : FingerUp(slot)
  <2>1. PICK slot \in Slots : FingerUp(slot)
    BY <1>6
  <2>2. Event("up", slot, ts.position) \in Events
    BY <1>2, <1>3
  <2>3. queue' \in Seq(Events) /\ queue' # <<>>
    BY <2>1, <2>2, QueuedStep DEF FingerUp
  <2> QED BY <1>1, <2>1, <2>3 DEF FingerUp, TouchInv, TouchTypeOK, FrameHasEvents
<1>7. CASE \E slot \in Slots : FingerCancel(slot)
  <2>1. PICK slot \in Slots : FingerCancel(slot)
    BY <1>7
  <2>2. queue' \in Seq(Events) /\ frame = "no"
    BY <1>1, <2>1, EventsWithoutTyped DEF FingerCancel, Idle
  <2> QED BY <1>1, <2>1, <2>2 DEF FingerCancel, TouchInv, TouchTypeOK, FrameHasEvents
<1>8. CASE TouchFrame
  BY <1>1, <1>8 DEF TouchFrame, TouchInv, TouchTypeOK, FrameHasEvents
<1> QED BY <1>4, <1>5, <1>6, <1>7, <1>8

LEMMA HandleStep ==
    ASSUME TouchInv, HandleEvent \/ HandleEventWhileOff
    PROVE  TouchInv'
<1> DEFINE event == Head(queue)
<1>1. /\ TouchTypeOK /\ GoodTouch(ts) /\ queue \in Seq(Events) /\ queue # <<>>
      /\ Handled /\ frame # "no"
  BY DEF TouchInv, TouchTypeOK, FrameHasEvents, HandleEvent, HandleEventWhileOff
<1>2. event \in Events /\ event.slot \in AllSlots /\ event.place \in Places
  BY <1>1, HeadTailLemma
<1>3. queue' \in Seq(Events) /\ FrameHasEvents' /\ frame' \in {"no", "on", "off"}
  BY <1>1, HandledStep
<1>4. fingers' = fingers /\ pressed' = pressed /\ crowded' = crowded
  BY <1>1 DEF Handled
<1> HIDE DEF event
<1>5. GoodTouch(ts') /\ displayOn' \in BOOLEAN /\ dropped' \in BOOLEAN
  <2>1. CASE HandleEvent
    <3>1. displayOn' = displayOn /\ dropped' = dropped
      BY <2>1 DEF HandleEvent
    <3>2. \/ TouchDown(event.slot, event.place)
          \/ TouchUp(event.slot)
          \/ \E velocity \in BOOLEAN : TouchMotion(event.slot, event.place, velocity)
      BY <2>1 DEF HandleEvent, event
    <3>3. GoodTouch(ts')
      BY <1>1, <1>2, <3>2, DownLemma, UpLemma, MotionLemma
    <3> QED BY <1>1, <3>1, <3>3 DEF TouchTypeOK
  <2>2. CASE HandleEventWhileOff
    <3>1. \/ ts' = Start(ts, event.slot, event.place) /\ UNCHANGED <<displayOn, dropped>>
          \/ TouchUpWhileOff(event) /\ dropped' = TRUE
          \/ UNCHANGED <<ts, displayOn, dropped>>
      BY <2>2 DEF HandleEventWhileOff, event
    <3>2. CASE ts' = Start(ts, event.slot, event.place) /\ UNCHANGED <<displayOn, dropped>>
      BY <1>1, <1>2, <3>2, StartLemma DEF TouchTypeOK
    <3>3. CASE TouchUpWhileOff(event) /\ dropped' = TRUE
      <4>1. displayOn' \in BOOLEAN
        BY <1>1, <3>3 DEF TouchUpWhileOff, TouchTypeOK
      <4> QED BY <1>1, <1>2, <3>3, <4>1, WhileOffLemma
    <3>4. CASE UNCHANGED <<ts, displayOn, dropped>>
      BY <1>1, <3>4 DEF TouchTypeOK
    <3> QED BY <3>1, <3>2, <3>3, <3>4
  <2> QED BY <2>1, <2>2
<1> QED BY <1>1, <1>3, <1>4, <1>5 DEF TouchInv, TouchTypeOK, GoodTouch, SoundTouch

LEMMA PointerAndTimeStep ==
    ASSUME TouchInv,
           \/ PointerPress \/ PointerRelease \/ \E place \in Places : PointerMotion(place)
           \/ VelocityTick \/ SingleTap \/ TapExpires \/ HoldPasses \/ SetDisplayStatus
           \/ UNCHANGED touchVars
    PROVE  TouchInv'
<1>1. /\ TouchTypeOK /\ GoodTouch(ts) /\ ts \in TouchStates
      /\ ts.position \in Places /\ PointerSlot \in AllSlots
  BY DEF TouchInv, TouchTypeOK, TouchStates, AllSlots
<1>2. /\ queue' = queue /\ frame' = frame /\ fingers' = fingers
      /\ pressed' \in BOOLEAN /\ dropped' \in BOOLEAN /\ crowded' \in BOOLEAN
      /\ displayOn' \in BOOLEAN
  BY <1>1 DEF PointerPress, PointerRelease, PointerMotion, VelocityTick, SingleTap,
              TapExpires, HoldPasses, SetDisplayStatus, Quiet, touchVars, TouchTypeOK
<1>3. GoodTouch(ts')
  <2>1. CASE ts' = ts
    BY <1>1, <2>1
  <2>2. CASE PointerPress
    <3>1. ts' = ts \/ TouchDown(PointerSlot, ts.position)
      BY <2>2 DEF PointerPress
    <3> QED BY <1>1, <3>1, DownLemma
  <2>3. CASE PointerRelease
    <3>1. ts' = ts \/ TouchUp(PointerSlot)
      BY <2>3 DEF PointerRelease
    <3> QED BY <1>1, <3>1, UpLemma
  <2>4. CASE \E place \in Places : PointerMotion(place)
    <3>1. PICK place \in Places : PointerMotion(place)
      BY <2>4
    <3> DEFINE n == [ts EXCEPT !.position = place]
    <3>2. TouchMotion(PointerSlot, place, FALSE) \/ ts' = n
      BY <3>1 DEF PointerMotion
    <3>3. Tapped(ts, n)
      BY <1>1 DEF Tapped, TouchStates
    <3> HIDE DEF n
    <3>4. GoodTouch(n)
      BY <1>1, <3>3, TappedGood
    <3> QED BY <1>1, <3>2, <3>4, MotionLemma
  <2>5. CASE VelocityTick
    BY <1>1, <2>5, TickLemma
  <2>6. CASE SingleTap \/ TapExpires \/ HoldPasses
    BY <1>1, <2>6, TimeLemma, TappedGood
  <2>7. CASE SetDisplayStatus \/ UNCHANGED touchVars
    BY <2>1, <2>7 DEF SetDisplayStatus, touchVars
  <2> QED BY <2>2, <2>3, <2>4, <2>5, <2>6, <2>7
<1> QED BY <1>1, <1>2, <1>3
        DEF TouchInv, TouchTypeOK, FrameHasEvents, GoodTouch, SoundTouch

LEMMA NextTouchInv == TouchInv /\ [TouchNext]_touchVars => TouchInv'
BY QueueingStep, HandleStep, PointerAndTimeStep DEF TouchNext

LEMMA AlwaysTouchInv == TouchSpec => []TouchInv
<1>1. TouchInv /\ [TouchNext]_touchVars => TouchInv'
  BY NextTouchInv
<1> QED BY InitTouchInv, <1>1, PTL DEF TouchSpec

\* Each part of the touch state and of the backend's queue keeps its type.
THEOREM TouchTypeCorrect == TouchSpec => []TouchTypeOK
<1>1. TouchInv => TouchTypeOK
  BY DEF TouchInv
<1> QED BY AlwaysTouchInv, <1>1, PTL

\* The velocity timer never runs during a touch, it runs as long as a drag or gesture
\* without a finger has neither been ended nor cut off, and no gesture of the user runs
\* twice for one touch, with any number of slots, pointers, bindings and events.
THEOREM VelocityAlwaysEnds == TouchSpec => []VelocityEnds
<1>1. TouchInv => VelocityEnds
  BY DEF TouchInv, GoodTouch, Coasting, VelocityEnds, NoCoastingTouch, UnfinishedHasTimer,
         GestureRunsOnce
<1> QED BY AlwaysTouchInv, <1>1, PTL

----------------------------------------------------------------------------
(* TouchInput.  What a touch took is given back.                           *)
(*                                                                         *)
(* SlotHasFinger is not inductive: a press that is still queued will take   *)
(* the slot, so its finger has to be there too (DownsHaveFinger).  With one *)
(* finger at a time presses and releases alternate in the queue (Turns,     *)
(* TurnAfter), so every press finds the slot free and every release the     *)
(* touch that it ends; the only client that was told is that touch's.       *)

Down(e) == e.ty = "down"

Up(e, slot) == e.ty = "up" /\ e.slot = slot

DownsHaveFinger(q, f) ==
    \A k \in DOMAIN q : Down(q[k]) =>
        \/ q[k].slot \in f
        \/ \E j \in DOMAIN q : j > k /\ Up(q[j], q[k].slot)

\* A press comes after the release of the one before it.
Turns(q) ==
    \A k, m \in DOMAIN q : k < m /\ Down(q[k]) /\ Down(q[m]) =>
        \E j \in DOMAIN q : k < j /\ j < m /\ Up(q[j], q[k].slot)

\* A press comes after the release of a slot.
TurnAfter(q, slot) ==
    \A m \in DOMAIN q : Down(q[m]) => \E j \in DOMAIN q : j < m /\ Up(q[j], slot)

HasUp(q, slot) == \E j \in DOMAIN q : Up(q[j], slot)

Alone == ~crowded /\ ~dropped

PressedAlone == ~crowded /\ pressed => fingers = {} /\ queue = <<>>

TakesTurns == Alone => Turns(queue) /\ (Touching(ts) => TurnAfter(queue, ts.slot))

OneClient ==
    Alone => /\ ts.clients \subseteq {ts.slot} \ {NoSlot}
             /\ ts.clients # {} => ts.input # NoSurface

SlotInv ==
    /\ TouchInv
    /\ dropped \/ DownsHaveFinger(queue, fingers)
    /\ SlotHasFinger /\ PressedAlone /\ TakesTurns /\ OneClient

LEMMA PresentLemma ==
    ASSUME NEW slot
    PROVE  slot \in Present <=> \/ slot \in fingers
                                \/ pressed /\ slot = PointerSlot
                                \/ HasUp(queue, slot)
BY DEF Present, HasUp, Up

\* How a queue looks when an event is added, and when one is taken.
LEMMA AppendedQueue ==
    ASSUME NEW q \in Seq(Events), NEW e \in Events
    PROVE  /\ DOMAIN q = 1..Len(q) /\ Len(q) \in Nat
           /\ DOMAIN Append(q, e) = 1..(Len(q) + 1)
           /\ \A k \in 1..Len(q) : Append(q, e)[k] = q[k]
           /\ Append(q, e)[Len(q) + 1] = e
OBVIOUS

LEMMA TakenQueue ==
    ASSUME NEW q \in Seq(Events), q # <<>>
    PROVE  /\ DOMAIN q = 1..Len(q) /\ Len(q) \in Nat /\ Len(q) > 0
           /\ DOMAIN Tail(q) = 1..(Len(q) - 1)
           /\ \A k \in 1..(Len(q) - 1) : Tail(q)[k] = q[k + 1]
           /\ Head(q) = q[1]
OBVIOUS

LEMMA AppendDowns ==
    ASSUME NEW q \in Seq(Events), NEW e \in Events, NEW f, DownsHaveFinger(q, f),
           NEW g, Down(e) => e.slot \in g,
           \A slot \in f \ g : Up(e, slot)
    PROVE  DownsHaveFinger(Append(q, e), g)
<1> DEFINE n == Len(q)
           r == Append(q, e)
<1>1. /\ DOMAIN q = 1..n /\ n \in Nat /\ DOMAIN r = 1..(n + 1)
      /\ \A k \in 1..n : r[k] = q[k]
      /\ r[n + 1] = e
  BY AppendedQueue
<1> HIDE DEF n, r
<1>2. SUFFICES ASSUME NEW k \in 1..(n + 1), Down(r[k])
               PROVE  \/ r[k].slot \in g
                      \/ \E j \in 1..(n + 1) : j > k /\ Up(r[j], r[k].slot)
  BY <1>1 DEF DownsHaveFinger, r
<1>3. CASE k = n + 1
  BY <1>1, <1>2, <1>3
<1>4. CASE k \in 1..n
  <2>1. r[k] = q[k] /\ k < n + 1 /\ n + 1 \in 1..(n + 1)
    BY <1>1, <1>4
  <2>2. \/ q[k].slot \in f
        \/ \E j \in 1..n : j > k /\ Up(q[j], q[k].slot)
    BY <1>1, <1>2, <1>4, <2>1 DEF DownsHaveFinger
  <2>3. CASE q[k].slot \in f
    <3>1. q[k].slot \in g \/ Up(r[n + 1], q[k].slot)
      BY <1>1, <2>3
    <3> QED BY <1>1, <2>1, <3>1
  <2>4. CASE \E j \in 1..n : j > k /\ Up(q[j], q[k].slot)
    <3>1. PICK j \in 1..n : j > k /\ Up(q[j], q[k].slot)
      BY <2>4
    <3>2. j \in 1..(n + 1) /\ r[j] = q[j]
      BY <1>1
    <3> QED BY <2>1, <3>1, <3>2
  <2> QED BY <2>2, <2>3, <2>4
<1> QED BY <1>1, <1>3, <1>4

LEMMA TailDowns ==
    ASSUME NEW q \in Seq(Events), q # <<>>, NEW f, DownsHaveFinger(q, f)
    PROVE  /\ DownsHaveFinger(Tail(q), f)
           /\ Down(Head(q)) => Head(q).slot \in f \/ HasUp(Tail(q), Head(q).slot)
<1> DEFINE n == Len(q)
           r == Tail(q)
<1>1. /\ DOMAIN q = 1..n /\ n \in Nat /\ n > 0 /\ DOMAIN r = 1..(n - 1)
      /\ \A k \in 1..(n - 1) : r[k] = q[k + 1]
      /\ Head(q) = q[1]
  BY TakenQueue
<1> HIDE DEF n, r
<1>2. ASSUME NEW k \in 1..n, Down(q[k])
      PROVE  \/ q[k].slot \in f
             \/ \E j \in 1..(n - 1) : j + 1 > k /\ Up(r[j], q[k].slot)
  <2>1. \/ q[k].slot \in f
        \/ \E j \in 1..n : j > k /\ Up(q[j], q[k].slot)
    BY <1>1, <1>2 DEF DownsHaveFinger
  <2>2. ASSUME NEW j \in 1..n, j > k, Up(q[j], q[k].slot)
        PROVE  \E i \in 1..(n - 1) : i + 1 > k /\ Up(r[i], q[k].slot)
    <3>1. j - 1 \in 1..(n - 1) /\ (j - 1) + 1 = j
      BY <1>1, <2>2
    <3>2. r[j - 1] = q[j]
      BY <1>1, <3>1
    <3> QED BY <2>2, <3>1, <3>2
  <2> QED BY <2>1, <2>2
<1>3. ASSUME NEW k \in 1..(n - 1), Down(r[k])
      PROVE  \/ r[k].slot \in f
             \/ \E j \in 1..(n - 1) : j > k /\ Up(r[j], r[k].slot)
  <2>1. k + 1 \in 1..n /\ r[k] = q[k + 1]
    BY <1>1
  <2>2. \/ q[k + 1].slot \in f
        \/ \E j \in 1..(n - 1) : j + 1 > k + 1 /\ Up(r[j], q[k + 1].slot)
    BY <1>2, <1>3, <2>1
  <2>3. \A j \in 1..(n - 1) : j + 1 > k + 1 => j > k
    BY <1>1
  <2> QED BY <2>1, <2>2, <2>3
<1>4. DownsHaveFinger(r, f)
  BY <1>1, <1>3 DEF DownsHaveFinger
<1>5. Down(q[1]) => q[1].slot \in f \/ \E j \in 1..(n - 1) : Up(r[j], q[1].slot)
  <2>1. 1 \in 1..n
    BY <1>1
  <2> QED BY <1>2, <2>1
<1>6. Down(q[1]) => q[1].slot \in f \/ HasUp(r, q[1].slot)
  BY <1>1, <1>5 DEF HasUp
<1> QED BY <1>1, <1>4, <1>6 DEF r

LEMMA AppendUps ==
    ASSUME NEW q \in Seq(Events), NEW e \in Events, NEW slot
    PROVE  HasUp(Append(q, e), slot) <=> HasUp(q, slot) \/ Up(e, slot)
<1> DEFINE n == Len(q)
           r == Append(q, e)
<1>1. /\ DOMAIN q = 1..n /\ n \in Nat /\ DOMAIN r = 1..(n + 1)
      /\ \A k \in 1..n : r[k] = q[k]
      /\ r[n + 1] = e
  BY AppendedQueue
<1> HIDE DEF n, r
<1>2. \A k \in 1..(n + 1) : k = n + 1 \/ k \in 1..n
  BY <1>1
<1>3. n + 1 \in 1..(n + 1) /\ \A k \in 1..n : k \in 1..(n + 1)
  BY <1>1
<1>4. HasUp(r, slot) <=> HasUp(q, slot) \/ Up(e, slot)
  BY <1>1, <1>2, <1>3 DEF HasUp
<1> QED BY <1>4 DEF r

LEMMA TailUps ==
    ASSUME NEW q \in Seq(Events), q # <<>>, NEW slot
    PROVE  HasUp(q, slot) <=> HasUp(Tail(q), slot) \/ Up(Head(q), slot)
<1> DEFINE n == Len(q)
           r == Tail(q)
<1>1. /\ DOMAIN q = 1..n /\ n \in Nat /\ n > 0 /\ DOMAIN r = 1..(n - 1)
      /\ \A k \in 1..(n - 1) : r[k] = q[k + 1]
      /\ Head(q) = q[1]
  BY TakenQueue
<1> HIDE DEF n, r
<1>2. ASSUME NEW k \in 1..n, k # 1 PROVE k - 1 \in 1..(n - 1) /\ r[k - 1] = q[k]
  <2>1. k - 1 \in 1..(n - 1) /\ (k - 1) + 1 = k
    BY <1>1, <1>2
  <2> QED BY <1>1, <2>1
<1>3. \A k \in 1..(n - 1) : k + 1 \in 1..n
  BY <1>1
<1>4. 1 \in 1..n
  BY <1>1
<1>5. HasUp(q, slot) => HasUp(r, slot) \/ Up(q[1], slot)
  BY <1>1, <1>2 DEF HasUp
<1>6. HasUp(r, slot) \/ Up(q[1], slot) => HasUp(q, slot)
  BY <1>1, <1>3, <1>4 DEF HasUp
<1> QED BY <1>1, <1>5, <1>6 DEF r

\* A press that is added takes its turn if the fingers of the earlier ones are gone.
LEMMA AppendTurns ==
    ASSUME NEW q \in Seq(Events), NEW e \in Events, Turns(q),
           Down(e) => DownsHaveFinger(q, {})
    PROVE  Turns(Append(q, e))
<1> DEFINE n == Len(q)
           r == Append(q, e)
<1>1. /\ DOMAIN q = 1..n /\ n \in Nat /\ DOMAIN r = 1..(n + 1)
      /\ \A k \in 1..n : r[k] = q[k]
      /\ r[n + 1] = e
  BY AppendedQueue
<1> HIDE DEF n, r
<1>2. SUFFICES ASSUME NEW k \in 1..(n + 1), NEW m \in 1..(n + 1),
                      k < m, Down(r[k]), Down(r[m])
               PROVE  \E j \in 1..(n + 1) : k < j /\ j < m /\ Up(r[j], r[k].slot)
  BY <1>1 DEF Turns, r
<1>3. k \in 1..n /\ r[k] = q[k]
  BY <1>1, <1>2
<1>4. \E j \in 1..n : k < j /\ j < m /\ Up(q[j], q[k].slot)
  <2>1. CASE m = n + 1
    <3>1. \E j \in 1..n : j > k /\ Up(q[j], q[k].slot)
      BY <1>1, <1>2, <1>3, <2>1 DEF DownsHaveFinger
    <3>2. \A j \in 1..n : j < m /\ (j > k => k < j)
      BY <1>1, <2>1
    <3> QED BY <3>1, <3>2
  <2>2. CASE m \in 1..n
    BY <1>1, <1>2, <1>3, <2>2 DEF Turns
  <2> QED BY <1>1, <2>1, <2>2
<1>5. \A j \in 1..n : j \in 1..(n + 1) /\ r[j] = q[j]
  BY <1>1
<1> QED BY <1>3, <1>4, <1>5

LEMMA AppendTurnAfter ==
    ASSUME NEW q \in Seq(Events), NEW e \in Events, NEW slot, TurnAfter(q, slot),
           Down(e) => HasUp(q, slot)
    PROVE  TurnAfter(Append(q, e), slot)
<1> DEFINE n == Len(q)
           r == Append(q, e)
<1>1. /\ DOMAIN q = 1..n /\ n \in Nat /\ DOMAIN r = 1..(n + 1)
      /\ \A k \in 1..n : r[k] = q[k]
      /\ r[n + 1] = e
  BY AppendedQueue
<1> HIDE DEF n, r
<1>2. SUFFICES ASSUME NEW m \in 1..(n + 1), Down(r[m])
               PROVE  \E j \in 1..(n + 1) : j < m /\ Up(r[j], slot)
  BY <1>1 DEF TurnAfter, r
<1>3. \E j \in 1..n : j < m /\ Up(q[j], slot)
  <2>1. CASE m = n + 1
    <3>1. \E j \in 1..n : Up(q[j], slot)
      BY <1>1, <1>2, <2>1 DEF HasUp
    <3>2. \A j \in 1..n : j < m
      BY <1>1, <2>1
    <3> QED BY <3>1, <3>2
  <2>2. CASE m \in 1..n
    BY <1>1, <1>2, <2>2 DEF TurnAfter
  <2> QED BY <1>1, <2>1, <2>2
<1>4. \A j \in 1..n : j \in 1..(n + 1) /\ r[j] = q[j]
  BY <1>1
<1> QED BY <1>3, <1>4

LEMMA TailTurns ==
    ASSUME NEW q \in Seq(Events), q # <<>>, Turns(q)
    PROVE  /\ Turns(Tail(q))
           /\ Down(Head(q)) => TurnAfter(Tail(q), Head(q).slot)
<1> DEFINE n == Len(q)
           r == Tail(q)
<1>1. /\ DOMAIN q = 1..n /\ n \in Nat /\ n > 0 /\ DOMAIN r = 1..(n - 1)
      /\ \A k \in 1..(n - 1) : r[k] = q[k + 1]
      /\ Head(q) = q[1]
  BY TakenQueue
<1> HIDE DEF n, r
<1>2. ASSUME NEW k \in 1..n, NEW m \in 1..(n - 1), k < m + 1, Down(q[k]), Down(r[m])
      PROVE  \E j \in 1..(n - 1) : k < j + 1 /\ j < m /\ Up(r[j], q[k].slot)
  <2>1. m + 1 \in 1..n /\ r[m] = q[m + 1]
    BY <1>1
  <2>2. PICK j \in 1..n : k < j /\ j < m + 1 /\ Up(q[j], q[k].slot)
    BY <1>1, <1>2, <2>1 DEF Turns
  <2>3. j - 1 \in 1..(n - 1) /\ (j - 1) + 1 = j /\ j - 1 < m
    BY <1>1, <2>2
  <2>4. r[j - 1] = q[j]
    BY <1>1, <2>3
  <2> QED BY <2>2, <2>3, <2>4
<1>3. Turns(r)
  <2>1. ASSUME NEW k \in 1..(n - 1), NEW m \in 1..(n - 1), k < m, Down(r[k]), Down(r[m])
        PROVE  \E j \in 1..(n - 1) : k < j /\ j < m /\ Up(r[j], r[k].slot)
    <3>1. k + 1 \in 1..n /\ r[k] = q[k + 1] /\ k + 1 < m + 1
      BY <1>1, <2>1
    <3>2. \E j \in 1..(n - 1) : k + 1 < j + 1 /\ j < m /\ Up(r[j], q[k + 1].slot)
      BY <1>2, <2>1, <3>1
    <3>3. \A j \in 1..(n - 1) : k + 1 < j + 1 => k < j
      BY <1>1
    <3> QED BY <3>1, <3>2, <3>3
  <2> QED BY <1>1, <2>1 DEF Turns
<1>4. ASSUME Down(q[1]) PROVE TurnAfter(r, q[1].slot)
  <2>1. ASSUME NEW m \in 1..(n - 1), Down(r[m])
        PROVE  \E j \in 1..(n - 1) : j < m /\ Up(r[j], q[1].slot)
    <3>1. 1 \in 1..n /\ 1 < m + 1
      BY <1>1
    <3> QED BY <1>2, <1>4, <2>1, <3>1
  <2> QED BY <1>1, <2>1 DEF TurnAfter
<1> QED BY <1>1, <1>3, <1>4 DEF r

LEMMA TailTurnAfter ==
    ASSUME NEW q \in Seq(Events), q # <<>>, NEW slot, TurnAfter(q, slot)
    PROVE  /\ ~Down(Head(q))
           /\ ~Up(Head(q), slot) => TurnAfter(Tail(q), slot)
<1> DEFINE n == Len(q)
           r == Tail(q)
<1>1. /\ DOMAIN q = 1..n /\ n \in Nat /\ n > 0 /\ DOMAIN r = 1..(n - 1)
      /\ \A k \in 1..(n - 1) : r[k] = q[k + 1]
      /\ Head(q) = q[1]
  BY TakenQueue
<1> HIDE DEF n, r
<1>2. ~Down(q[1])
  <2>1. 1 \in 1..n /\ \A j \in 1..n : ~(j < 1)
    BY <1>1
  <2> QED BY <1>1, <2>1 DEF TurnAfter
<1>3. ASSUME ~Up(q[1], slot) PROVE TurnAfter(r, slot)
  <2>1. ASSUME NEW m \in 1..(n - 1), Down(r[m])
        PROVE  \E j \in 1..(n - 1) : j < m /\ Up(r[j], slot)
    <3>1. m + 1 \in 1..n /\ r[m] = q[m + 1]
      BY <1>1
    <3>2. PICK j \in 1..n : j < m + 1 /\ Up(q[j], slot)
      BY <1>1, <2>1, <3>1 DEF TurnAfter
    <3>3. j # 1
      BY <1>3, <3>2
    <3>4. j - 1 \in 1..(n - 1) /\ (j - 1) + 1 = j /\ j - 1 < m
      BY <1>1, <3>2, <3>3
    <3>5. r[j - 1] = q[j]
      BY <1>1, <3>4
    <3> QED BY <3>2, <3>4, <3>5
  <2> QED BY <1>1, <2>1 DEF TurnAfter
<1> QED BY <1>1, <1>2, <1>3 DEF r

----------------------------------------------------------------------------
(* TouchInput.  Each action keeps SlotInv. *)

LEMMA FingerDownSlots ==
    ASSUME SlotInv, NEW slot \in Slots, NEW place \in Places, FingerDown(slot, place)
    PROVE  SlotInv'
<1> DEFINE e == Event("down", slot, place)
<1>1. TouchInv' /\ TouchInv /\ queue \in Seq(Events)
  BY QueueingStep DEF SlotInv, TouchInv, TouchTypeOK
<1>2. e \in Events /\ Down(e) /\ e.slot = slot /\ ~ \E s : Up(e, s)
  BY DEF Event, Events, AllSlots, Down, Up
<1>3. /\ queue' = Append(queue, e) /\ fingers' = fingers \cup {slot}
      /\ ts' = ts /\ pressed' = pressed /\ dropped' = dropped
      /\ crowded' = (crowded \/ fingers # {} \/ pressed)
  BY DEF FingerDown
<1> HIDE DEF e
<1>4. dropped' \/ DownsHaveFinger(queue', fingers')
  <2>1. CASE ~dropped
    <3>1. DownsHaveFinger(queue, fingers)
      BY <2>1 DEF SlotInv
    <3>2. DownsHaveFinger(Append(queue, e), fingers \cup {slot})
      BY <1>1, <1>2, <3>1, AppendDowns
    <3> QED BY <1>3, <3>2
  <2> QED BY <1>3, <2>1
<1>5. SlotHasFinger'
  <2>1. \A s : HasUp(queue, s) => HasUp(queue', s)
    BY <1>1, <1>2, <1>3, AppendUps
  <2>2. Present \subseteq Present'
    <3>1. \A s : s \in Present => s \in Present'
      BY <1>3, <2>1 DEF Present, HasUp, Up
    <3> QED BY <3>1
  <2> QED BY <1>3, <2>2 DEF SlotInv, SlotHasFinger, Touching
<1>6. PressedAlone'
  BY <1>3 DEF PressedAlone
<1>7. TakesTurns'
  <2>1. SUFFICES ASSUME Alone' PROVE Turns(queue') /\ (Touching(ts) => TurnAfter(queue', ts.slot))
    BY <1>3 DEF TakesTurns
  <2>2. Alone /\ fingers = {} /\ ~pressed /\ ~dropped
    BY <1>3, <2>1 DEF Alone
  <2>3. Turns(queue) /\ (Touching(ts) => TurnAfter(queue, ts.slot))
        /\ DownsHaveFinger(queue, {})
    BY <2>2 DEF SlotInv, TakesTurns
  <2>4. Turns(queue')
    BY <1>1, <1>2, <1>3, <2>3, AppendTurns
  <2>5. ASSUME Touching(ts) PROVE TurnAfter(queue', ts.slot)
    <3>1. ts.slot \in Present
      BY <2>2, <2>5 DEF SlotInv, SlotHasFinger
    <3>2. HasUp(queue, ts.slot)
      BY <2>2, <3>1, PresentLemma
    <3> QED BY <1>1, <1>2, <1>3, <2>3, <2>5, <3>2, AppendTurnAfter
  <2> QED BY <2>4, <2>5
<1>8. OneClient'
  BY <1>3 DEF SlotInv, OneClient, Alone
<1> QED BY <1>1, <1>4, <1>5, <1>6, <1>7, <1>8 DEF SlotInv

\* A motion, or the release of the finger in `gone`.
OtherEvent(e, gone) ==
    /\ e \in Events /\ ~Down(e) /\ gone \subseteq fingers /\ fingers # {}
    /\ \A slot \in gone : Up(e, slot)
    /\ queue' = Append(queue, e) /\ fingers' = fingers \ gone
    /\ UNCHANGED <<ts, pressed, dropped, crowded>>

LEMMA OtherEventSlots ==
    ASSUME SlotInv, TouchInv', NEW e, NEW gone, OtherEvent(e, gone)
    PROVE  SlotInv'
<1> USE DEF OtherEvent
<1>1. TouchInv /\ queue \in Seq(Events)
  BY DEF SlotInv, TouchInv, TouchTypeOK
<1>2. dropped' \/ DownsHaveFinger(queue', fingers')
  <2>1. CASE ~dropped
    <3>1. DownsHaveFinger(queue, fingers)
      BY <2>1 DEF SlotInv
    <3>2. DownsHaveFinger(Append(queue, e), fingers \ gone)
      BY <1>1, <3>1, AppendDowns
    <3> QED BY <3>2
  <2> QED BY <2>1
<1>3. SlotHasFinger'
  <2>1. \A s : HasUp(queue, s) \/ s \in gone => HasUp(queue', s)
    BY <1>1, AppendUps
  <2>2. \A s : s \in Present => s \in Present'
    BY <2>1 DEF Present, HasUp, Up
  <2> QED BY <2>2 DEF SlotInv, SlotHasFinger, Touching
<1>4. PressedAlone'
  BY DEF SlotInv, PressedAlone
<1>5. TakesTurns'
  <2>1. SUFFICES ASSUME Alone' PROVE Turns(queue') /\ (Touching(ts) => TurnAfter(queue', ts.slot))
    BY DEF TakesTurns
  <2>2. Turns(queue) /\ (Touching(ts) => TurnAfter(queue, ts.slot))
    BY <2>1 DEF SlotInv, TakesTurns, Alone
  <2> QED BY <1>1, <2>2, AppendTurns, AppendTurnAfter
<1>6. OneClient'
  BY DEF SlotInv, OneClient, Alone
<1> QED BY <1>2, <1>3, <1>4, <1>5, <1>6 DEF SlotInv

LEMMA QueueingSlots ==
    ASSUME SlotInv,
           \/ \E slot \in Slots, place \in Places : FingerDown(slot, place) \/ FingerMotion(slot, place)
           \/ \E slot \in Slots : FingerUp(slot) \/ FingerCancel(slot)
           \/ TouchFrame
    PROVE  SlotInv'
<1>1. TouchInv /\ TouchInv' /\ ts.position \in Places /\ queue \in Seq(Events)
  BY QueueingStep DEF SlotInv, TouchInv, TouchTypeOK, TouchStates
<1>2. CASE \E slot \in Slots, place \in Places : FingerDown(slot, place)
  BY <1>2, FingerDownSlots
<1>3. CASE \E slot \in Slots, place \in Places : FingerMotion(slot, place)
  <2>1. PICK slot \in Slots, place \in Places : FingerMotion(slot, place)
    BY <1>3
  <2> DEFINE e == Event("motion", slot, place)
  <2>2. e \in Events /\ ~Down(e)
    BY DEF Event, Events, AllSlots, Down
  <2>3. queue' = Append(queue, e) /\ fingers' = fingers \ {} /\ fingers # {}
        /\ UNCHANGED <<ts, pressed, dropped, crowded>>
    BY <2>1 DEF FingerMotion
  <2> HIDE DEF e
  <2>4. OtherEvent(e, {})
    BY <2>2, <2>3 DEF OtherEvent
  <2> QED BY <1>1, <2>4, OtherEventSlots
<1>4. CASE \E slot \in Slots : FingerUp(slot)
  <2>1. PICK slot \in Slots : FingerUp(slot)
    BY <1>4
  <2> DEFINE e == Event("up", slot, ts.position)
  <2>2. e \in Events /\ ~Down(e) /\ Up(e, slot)
    BY <1>1 DEF Event, Events, AllSlots, Down, Up
  <2>3. queue' = Append(queue, e) /\ fingers' = fingers \ {slot} /\ fingers # {}
        /\ {slot} \subseteq fingers
        /\ UNCHANGED <<ts, pressed, dropped, crowded>>
    BY <2>1 DEF FingerUp
  <2> HIDE DEF e
  <2>4. OtherEvent(e, {slot})
    BY <2>2, <2>3 DEF OtherEvent
  <2> QED BY <1>1, <2>4, OtherEventSlots
<1>5. CASE \E slot \in Slots : FingerCancel(slot)
  <2>1. PICK slot \in Slots : FingerCancel(slot)
    BY <1>5
  <2>2. dropped' /\ crowded' = crowded /\ pressed' = pressed /\ fingers # {}
    BY <2>1 DEF FingerCancel
  <2> QED BY <1>1, <2>2
          DEF SlotInv, SlotHasFinger, PressedAlone, TakesTurns, OneClient, Alone
<1>6. CASE TouchFrame
  BY <1>1, <1>6 DEF TouchFrame, SlotInv, SlotHasFinger, PressedAlone, TakesTurns,
                    OneClient, Alone, Present
<1> QED BY <1>2, <1>3, <1>4, <1>5, <1>6

\* A step that leaves the slot and its client alone, and the queue too.
Unmoved ==
    /\ ts'.slot = ts.slot /\ ts'.input = ts.input /\ ts'.clients \subseteq ts.clients
    /\ UNCHANGED <<queue, fingers, pressed, dropped, crowded>>

LEMMA UnmovedSlots ==
    ASSUME SlotInv, TouchInv', Unmoved
    PROVE  SlotInv'
BY DEF SlotInv, Unmoved, SlotHasFinger, PressedAlone, TakesTurns, OneClient, Alone, Present,
       Touching

\* What is left of an event when it was handled: nothing waits in front of it.
LEMMA HandledSlots ==
    ASSUME SlotInv, TouchInv', queue # <<>>, Handled, dropped' = dropped
    PROVE  /\ dropped' \/ DownsHaveFinger(queue', fingers')
           /\ PressedAlone'
           /\ Alone' <=> Alone
           /\ Alone => Turns(queue')
           /\ Alone /\ Down(Head(queue))
                => ts.slot = NoSlot /\ TurnAfter(queue', Head(queue).slot)
           /\ Alone /\ Touching(ts) /\ ~Up(Head(queue), ts.slot)
                => TurnAfter(queue', ts.slot)
           /\ ~dropped /\ Down(Head(queue)) => Head(queue).slot \in Present'
           /\ ~dropped /\ Touching(ts) /\ ~Up(Head(queue), ts.slot) => ts.slot \in Present'
<1>1. /\ queue \in Seq(Events) /\ queue' = Tail(queue)
      /\ fingers' = fingers /\ pressed' = pressed /\ crowded' = crowded
  BY DEF SlotInv, TouchInv, TouchTypeOK, Handled
<1>2. dropped' \/ DownsHaveFinger(queue', fingers')
  BY <1>1, TailDowns DEF SlotInv
<1>3. PressedAlone'
  BY <1>1 DEF SlotInv, PressedAlone
<1>4. Alone' <=> Alone
  BY <1>1 DEF Alone
<1>5. ASSUME Alone PROVE Turns(queue)
  BY <1>5 DEF SlotInv, TakesTurns
<1>6. Alone => Turns(queue')
  BY <1>1, <1>5, TailTurns
<1>7. ASSUME Alone, Touching(ts) PROVE TurnAfter(queue, ts.slot)
  BY <1>7 DEF SlotInv, TakesTurns
<1>8. ASSUME Alone, Down(Head(queue))
      PROVE  ts.slot = NoSlot /\ TurnAfter(queue', Head(queue).slot)
  <2>1. ~Touching(ts)
    BY <1>1, <1>7, <1>8, TailTurnAfter
  <2>2. TurnAfter(queue', Head(queue).slot)
    BY <1>1, <1>5, <1>8, TailTurns
  <2> QED BY <2>1, <2>2 DEF Touching
<1>9. ASSUME Alone, Touching(ts), ~Up(Head(queue), ts.slot)
      PROVE  TurnAfter(queue', ts.slot)
  BY <1>1, <1>7, <1>9, TailTurnAfter
<1>10. \A slot : slot \in fingers \/ HasUp(queue', slot) \/ (pressed /\ slot = PointerSlot)
                   => slot \in Present'
  BY <1>1 DEF Present, HasUp, Up
<1>11. ASSUME ~dropped, Down(Head(queue)) PROVE Head(queue).slot \in Present'
  BY <1>1, <1>10, <1>11, TailDowns DEF SlotInv
<1>12. ASSUME ~dropped, Touching(ts), ~Up(Head(queue), ts.slot) PROVE ts.slot \in Present'
  <2>1. ts.slot \in Present
    BY <1>12 DEF SlotInv, SlotHasFinger
  <2>2. HasUp(queue, ts.slot) => HasUp(queue', ts.slot)
    BY <1>1, <1>12, TailUps
  <2> QED BY <1>10, <2>1, <2>2, PresentLemma
<1> QED BY <1>2, <1>3, <1>4, <1>6, <1>8, <1>9, <1>11, <1>12

\* What the handlers of a press, of a release and of what else there is do to the slot.
SlotTaken(slot) ==
    /\ Touching(ts) => ts'.slot = NoSlot
    /\ ~Touching(ts) => ts'.slot = slot
    /\ ts'.clients \subseteq ts.clients \cup {slot}
    /\ ts'.clients \subseteq ts.clients \/ ts'.input # NoSurface

SlotLeft(slot) ==
    /\ ts.slot # slot => ts'.slot = ts.slot /\ ts'.input = ts.input
    /\ ts.slot = slot => ts'.slot = NoSlot
    /\ ts'.clients \subseteq ts.clients
    /\ ts.input # NoSurface => slot \notin ts'.clients

SlotKept ==
    ts'.slot = ts.slot /\ ts'.input = ts.input /\ ts'.clients \subseteq ts.clients

\* Only the slot that is active has a client.
LEMMA ClientLemma ==
    ASSUME OneClient, Alone, NEW slot \in AllSlots
    PROVE  /\ ts.slot = NoSlot /\ SlotTaken(slot)
                => /\ ts'.clients \subseteq {ts'.slot} \ {NoSlot}
                   /\ ts'.clients # {} => ts'.input # NoSurface
           /\ SlotLeft(slot) => /\ ts'.clients \subseteq {ts'.slot} \ {NoSlot}
                                /\ ts'.clients # {} => ts'.input # NoSurface
<1>1. ts.clients \subseteq {ts.slot} \ {NoSlot} /\ (ts.clients # {} => ts.input # NoSurface)
  BY DEF OneClient
<1>2. slot # NoSlot
  BY TouchAssumption DEF AllSlots
<1>3. ASSUME ts.slot = NoSlot, SlotTaken(slot)
      PROVE  /\ ts'.clients \subseteq {ts'.slot} \ {NoSlot}
             /\ ts'.clients # {} => ts'.input # NoSurface
  BY <1>1, <1>2, <1>3 DEF SlotTaken, Touching
<1>4. ASSUME SlotLeft(slot)
      PROVE  /\ ts'.clients \subseteq {ts'.slot} \ {NoSlot}
             /\ ts'.clients # {} => ts'.input # NoSurface
  <2>1. CASE ts.slot = slot
    <3>1. ts'.clients = {}
      BY <1>1, <1>4, <2>1 DEF SlotLeft
    <3> QED BY <3>1
  <2>2. CASE ts.slot # slot
    BY <1>1, <1>4, <2>2 DEF SlotLeft
  <2> QED BY <2>1, <2>2
<1> QED BY <1>3, <1>4

LEMMA HandleSlots ==
    ASSUME SlotInv, HandleEvent \/ HandleEventWhileOff
    PROVE  SlotInv'
<1> DEFINE event == Head(queue)
           slot == event.slot
<1>1. TouchInv /\ TouchInv' /\ queue \in Seq(Events) /\ queue # <<>> /\ Handled
  BY HandleStep DEF SlotInv, TouchInv, TouchTypeOK, FrameHasEvents, HandleEvent,
                    HandleEventWhileOff
<1>2. event \in Events /\ slot \in AllSlots /\ event.place \in Places
  BY <1>1, HeadTailLemma
<1>3. slot # NoSlot
  BY <1>2, TouchAssumption DEF AllSlots
<1>4. GoodTouch(ts)
  BY <1>1 DEF TouchInv
<1>5. \/ dropped' = dropped /\ Down(event) /\ SlotTaken(slot)
      \/ dropped' = dropped /\ Up(event, slot) /\ SlotLeft(slot)
      \/ dropped' = dropped /\ event.ty = "motion" /\ SlotKept
      \/ dropped'
  <2>1. CASE HandleEvent
    <3>1. dropped' = dropped
      BY <2>1 DEF HandleEvent
    <3>2. \/ event.ty = "down" /\ TouchDown(slot, event.place)
          \/ event.ty = "up" /\ TouchUp(slot)
          \/ /\ event.ty = "motion"
             /\ \E velocity \in BOOLEAN : TouchMotion(slot, event.place, velocity)
      BY <2>1 DEF HandleEvent
    <3> HIDE DEF event
    <3>3. TouchDown(slot, event.place) => SlotTaken(slot)
      BY <1>2, <1>4, DownLemma DEF SlotTaken
    <3>4. TouchUp(slot) => SlotLeft(slot)
      BY <1>2, <1>4, UpLemma DEF SlotLeft
    <3>5. (\E velocity \in BOOLEAN : TouchMotion(slot, event.place, velocity)) => SlotKept
      BY <1>2, <1>4, MotionLemma DEF SlotKept
    <3> QED BY <3>1, <3>2, <3>3, <3>4, <3>5 DEF Down, Up
  <2>2. CASE HandleEventWhileOff
    <3>1. \/ event.ty = "down" /\ ts' = Start(ts, slot, event.place) /\ dropped' = dropped
          \/ dropped'
          \/ event.ty = "motion" /\ ts' = ts /\ dropped' = dropped
      BY <2>2 DEF HandleEventWhileOff
    <3> HIDE DEF event
    <3>2. ts' = Start(ts, slot, event.place) => SlotTaken(slot)
      BY <1>2, <1>4, StartLemma DEF SlotTaken
    <3>3. ts' = ts => SlotKept
      BY DEF SlotKept
    <3> QED BY <3>1, <3>2, <3>3 DEF Down
  <2> QED BY <2>1, <2>2
<1>6. CASE dropped'
  <2>1. PressedAlone'
    BY <1>1 DEF SlotInv, PressedAlone, Handled
  <2> QED BY <1>1, <1>6, <2>1
          DEF SlotInv, SlotHasFinger, TakesTurns, OneClient, Alone
<1>7. ASSUME dropped' = dropped
      PROVE  /\ dropped' \/ DownsHaveFinger(queue', fingers')
             /\ PressedAlone'
             /\ Alone' <=> Alone
             /\ Alone => Turns(queue')
             /\ Alone /\ Down(event) => ts.slot = NoSlot /\ TurnAfter(queue', slot)
             /\ Alone /\ Touching(ts) /\ ~Up(event, ts.slot) => TurnAfter(queue', ts.slot)
             /\ ~dropped /\ Down(event) => slot \in Present'
             /\ ~dropped /\ Touching(ts) /\ ~Up(event, ts.slot) => ts.slot \in Present'
  BY <1>1, <1>7, HandledSlots
<1> HIDE DEF event
<1>8. SlotHasFinger /\ OneClient
  BY DEF SlotInv
<1>9. CASE dropped' = dropped /\ Down(event) /\ SlotTaken(slot)
  <2>1. SlotHasFinger'
    BY <1>7, <1>9 DEF SlotHasFinger, Touching, SlotTaken
  <2>2. TakesTurns'
    BY <1>7, <1>9 DEF TakesTurns, Touching, SlotTaken
  <2>3. OneClient'
    BY <1>2, <1>7, <1>8, <1>9, ClientLemma DEF OneClient
  <2> QED BY <1>1, <1>7, <1>9, <2>1, <2>2, <2>3 DEF SlotInv
<1>10. CASE dropped' = dropped /\ Up(event, slot) /\ SlotLeft(slot)
  <2>1. Touching(ts)' => Touching(ts) /\ ts'.slot = ts.slot /\ ~Up(event, ts.slot)
    BY <1>10 DEF Touching, SlotLeft, Up
  <2>2. SlotHasFinger'
    BY <1>7, <1>10, <2>1 DEF SlotHasFinger
  <2>3. TakesTurns'
    BY <1>7, <1>10, <2>1 DEF TakesTurns
  <2>4. OneClient'
    BY <1>2, <1>7, <1>8, <1>10, ClientLemma DEF OneClient
  <2> QED BY <1>1, <1>7, <1>10, <2>2, <2>3, <2>4 DEF SlotInv
<1>11. CASE dropped' = dropped /\ event.ty = "motion" /\ SlotKept
  <2>1. Touching(ts)' => Touching(ts) /\ ts'.slot = ts.slot /\ ~Up(event, ts.slot)
    BY <1>11 DEF Touching, SlotKept, Up
  <2>2. SlotHasFinger'
    BY <1>7, <1>11, <2>1 DEF SlotHasFinger
  <2>3. TakesTurns'
    BY <1>7, <1>11, <2>1 DEF TakesTurns
  <2>4. OneClient'
    BY <1>7, <1>8, <1>11 DEF OneClient, SlotKept
  <2> QED BY <1>1, <1>7, <1>11, <2>2, <2>3, <2>4 DEF SlotInv
<1> QED BY <1>5, <1>6, <1>9, <1>10, <1>11

LEMMA PointerPressSlots ==
    ASSUME SlotInv, PointerPress
    PROVE  SlotInv'
<1>1. TouchInv' /\ GoodTouch(ts) /\ ts.position \in Places /\ PointerSlot \in AllSlots
  BY PointerAndTimeStep DEF SlotInv, TouchInv, TouchTypeOK, TouchStates, AllSlots
<1>2. /\ pressed' = TRUE /\ crowded' = (crowded \/ fingers # {} \/ queue # <<>>)
      /\ queue' = queue /\ fingers' = fingers /\ dropped' = dropped /\ ~pressed
      /\ ts' = ts \/ TouchDown(PointerSlot, ts.position)
  BY DEF PointerPress
<1>3. ts' = ts \/ SlotTaken(PointerSlot)
  BY <1>1, <1>2, DownLemma DEF SlotTaken
<1>4. \A slot : slot \in Present \/ slot = PointerSlot => slot \in Present'
  BY <1>2 DEF Present
<1>5. SlotHasFinger'
  BY <1>2, <1>3, <1>4 DEF SlotInv, SlotHasFinger, SlotTaken, Touching
<1>6. PressedAlone'
  BY <1>2 DEF PressedAlone
<1>7. ASSUME Alone'
      PROVE  Alone /\ queue = <<>> /\ ts.slot = NoSlot
  <2>1. Alone /\ queue = <<>> /\ fingers = {} /\ ~dropped
    BY <1>2, <1>7 DEF Alone
  <2>2. Present = {}
    BY <1>2, <2>1 DEF Present
  <2> QED BY <2>1, <2>2 DEF SlotInv, SlotHasFinger, Touching
<1>8. TakesTurns'
  <2>1. Alone' => \A slot : Turns(queue') /\ TurnAfter(queue', slot)
    BY <1>2, <1>7 DEF Turns, TurnAfter
  <2> QED BY <2>1 DEF TakesTurns
<1>9. OneClient'
  <2>1. SUFFICES ASSUME Alone'
                 PROVE  /\ ts'.clients \subseteq {ts'.slot} \ {NoSlot}
                        /\ ts'.clients # {} => ts'.input # NoSurface
    BY DEF OneClient
  <2>2. OneClient /\ Alone /\ ts.slot = NoSlot
    BY <1>7, <2>1 DEF SlotInv
  <2>3. CASE ts' = ts
    BY <2>2, <2>3 DEF OneClient
  <2>4. CASE SlotTaken(PointerSlot)
    BY <1>1, <2>2, <2>4, ClientLemma
  <2> QED BY <1>3, <2>3, <2>4
<1>10. dropped' \/ DownsHaveFinger(queue', fingers')
  BY <1>2 DEF SlotInv
<1> QED BY <1>1, <1>5, <1>6, <1>8, <1>9, <1>10 DEF SlotInv

LEMMA PointerReleaseSlots ==
    ASSUME SlotInv, PointerRelease
    PROVE  SlotInv'
<1>1. TouchInv' /\ GoodTouch(ts) /\ PointerSlot \in AllSlots
  BY PointerAndTimeStep DEF SlotInv, TouchInv, AllSlots
<1>2. /\ pressed' = FALSE /\ crowded' = crowded
      /\ queue' = queue /\ fingers' = fingers
      /\ (TouchUp(PointerSlot) /\ dropped' = dropped) \/ dropped'
  BY DEF PointerRelease
<1>3. PressedAlone'
  BY <1>2 DEF PressedAlone
<1>4. CASE dropped'
  BY <1>1, <1>3, <1>4 DEF SlotInv, SlotHasFinger, TakesTurns, OneClient, Alone
<1>5. CASE TouchUp(PointerSlot) /\ dropped' = dropped
  <2>1. SlotLeft(PointerSlot)
    BY <1>1, <1>5, UpLemma DEF SlotLeft
  <2>2. Touching(ts)' => Touching(ts) /\ ts'.slot = ts.slot /\ ts.slot # PointerSlot
    BY <2>1 DEF Touching, SlotLeft
  <2>3. \A slot : slot \in Present /\ slot # PointerSlot => slot \in Present'
    BY <1>2 DEF Present
  <2>4. SlotHasFinger'
    BY <1>5, <2>2, <2>3 DEF SlotInv, SlotHasFinger
  <2>5. TakesTurns'
    BY <1>2, <1>5, <2>2 DEF SlotInv, TakesTurns, Alone
  <2>6. OneClient'
    <3>1. OneClient /\ (Alone' <=> Alone)
      BY <1>2, <1>5 DEF SlotInv, Alone
    <3> QED BY <1>1, <2>1, <3>1, ClientLemma DEF OneClient
  <2>7. dropped' \/ DownsHaveFinger(queue', fingers')
    BY <1>2, <1>5 DEF SlotInv
  <2> QED BY <1>1, <1>3, <2>4, <2>5, <2>6, <2>7 DEF SlotInv
<1> QED BY <1>2, <1>4, <1>5

LEMMA TimeSlots ==
    ASSUME SlotInv,
           \/ \E place \in Places : PointerMotion(place)
           \/ VelocityTick \/ SingleTap \/ TapExpires \/ HoldPasses \/ SetDisplayStatus
           \/ UNCHANGED touchVars
    PROVE  SlotInv'
<1>1. TouchInv' /\ GoodTouch(ts) /\ ts \in TouchStates /\ PointerSlot \in AllSlots
  BY PointerAndTimeStep DEF SlotInv, TouchInv, TouchTypeOK, AllSlots
<1>2. UNCHANGED <<queue, fingers, pressed, dropped, crowded>>
  BY DEF PointerMotion, VelocityTick, SingleTap, TapExpires, HoldPasses, SetDisplayStatus,
         Quiet, touchVars
<1>3. SlotKept
  <2>1. CASE \E place \in Places : PointerMotion(place)
    <3>1. PICK place \in Places : PointerMotion(place)
      BY <2>1
    <3>2. TouchMotion(PointerSlot, place, FALSE) \/ ts' = [ts EXCEPT !.position = place]
      BY <3>1 DEF PointerMotion
    <3>3. CASE TouchMotion(PointerSlot, place, FALSE)
      BY <1>1, <3>3, MotionLemma DEF SlotKept
    <3>4. CASE ts' = [ts EXCEPT !.position = place]
      BY <1>1, <3>4 DEF SlotKept, TouchStates
    <3> QED BY <3>2, <3>3, <3>4
  <2>2. CASE VelocityTick
    BY <1>1, <2>2, TickLemma DEF SlotKept
  <2>3. CASE SingleTap \/ TapExpires \/ HoldPasses
    BY <1>1, <2>3, TimeLemma DEF SlotKept, Tapped
  <2>4. CASE SetDisplayStatus \/ UNCHANGED touchVars
    BY <2>4 DEF SetDisplayStatus, touchVars, SlotKept
  <2> QED BY <2>1, <2>2, <2>3, <2>4
<1>4. Unmoved
  BY <1>2, <1>3 DEF Unmoved, SlotKept
<1> QED BY <1>1, <1>4, UnmovedSlots

LEMMA InitSlotInv == TouchInit => SlotInv
<1> SUFFICES ASSUME TouchInit PROVE SlotInv
  OBVIOUS
<1>1. TouchInv
  BY InitTouchInv
<1>2. queue = <<>> /\ ~pressed /\ ts.slot = NoSlot /\ ts.clients = {}
  BY DEF TouchInit
<1>3. DownsHaveFinger(queue, fingers) /\ Turns(queue)
  BY <1>2 DEF DownsHaveFinger, Turns
<1> QED BY <1>1, <1>2, <1>3
        DEF SlotInv, SlotHasFinger, PressedAlone, TakesTurns, OneClient, Touching

LEMMA NextSlotInv == SlotInv /\ [TouchNext]_touchVars => SlotInv'
BY QueueingSlots, HandleSlots, PointerPressSlots, PointerReleaseSlots, TimeSlots
   DEF TouchNext

\* Whichever other finger, pointer, timer or display switch comes between: the active
\* slot has its finger unless a release was dropped, and with one finger at a time the
\* client that was told of a touch is told of its end.  Any number of slots and events.
THEOREM TouchesAlwaysEnd == TouchSpec => []TouchesEnd
<1>1. SlotInv /\ [TouchNext]_touchVars => SlotInv'
  BY NextSlotInv
<1>2. SlotInv => TouchesEnd
  BY DEF SlotInv, OneClient, Alone, SlotHasFinger, ClientsReleased, TouchesEnd, Touching
<1> QED BY InitSlotInv, <1>1, <1>2, PTL DEF TouchSpec

=============================================================================
