--------------------------- MODULE MCGamepadKeys ---------------------------
(* Instance of GamepadKeys: the left of the d-pad and one trigger, one     *)
(* axis of the stick whose left, too, presses the key that is bound to a    *)
(* command that repeats, at home to two, and a game that inhibits shortcuts *)
(* beside home.                                                             *)
EXTENDS GamepadKeys, TLC

CONSTANTS home, game, x, dpadLeft, lb, pageUp, q, vt

TwoApps == {home, game}
JustHome == {home}
JustGame == {game}
OneAxis == {x}
OneButton == {dpadLeft}
OneTrigger == {lb}
PadKeyOf == dpadLeft :> <<x, -1>> @@ lb :> pageUp
TypedKeys == {q, vt, BtnMode}
JustVt == {vt}
UserBindings ==
    {[keys |-> {<<x, -1>>}, apps |-> {home, game, NoApp}, trigger |-> "repeat"],
     [keys |-> {<<x, -1>>}, apps |-> {home}, trigger |-> "repeat"],
     [keys |-> {BtnMode}, apps |-> {game}, trigger |-> "press"],
     [keys |-> {q}, apps |-> {home}, trigger |-> "release"]}
=============================================================================
