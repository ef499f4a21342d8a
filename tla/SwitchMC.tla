------------------------------ MODULE SwitchMC ------------------------------
(***************************************************************************)
(* Small instances of ProfileSwitch: the desk of SessionMC, and profiles   *)
(* with a route, with faders only and with nothing in them.                *)
(***************************************************************************)
EXTENDS ProfileSwitch, SessionMC

FadersConfig == Config(<<>>, FaderAt(-9))
Profiles     == {LinkedConfig, UnlinkedConfig, FadersConfig, EmptyConfig}
OnlyBroken   == {Broken}

\* A desk whose fader is elsewhere, its pair linked or not.
TurnedDevs == {DeskWith(l, -20) : l \in {0, 1}}

\* Alone with the device, in every combination and with every fault.
AloneBeginnings ==
  [asks : BOOLEAN, known : BOOLEAN, child : {"up", "dead"}, port : {"free", "gui"},
   session : {NoSession}, drops : {0}, turns : {0}]

\* Beside the verifier of a session, with nothing else going wrong.
BesideBeginnings ==
  [asks : {TRUE}, known : {TRUE}, child : {"up"}, port : {"free"},
   session : {LinkedConfig}, drops : {MaxDrops}, turns : {MaxTurns}]

MCBeginnings == AloneBeginnings \union BesideBeginnings

\* What the theorems about a switch suppose.
ASSUME SaysOneThingHere == SaysOneThing
ASSUME UntouchedHere    == Untouched

=============================================================================
