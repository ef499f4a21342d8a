------------------------------ MODULE Readback ------------------------------
(***************************************************************************)
(* How a read-back of the device is judged: which registers a dump can     *)
(* report (verify.py), who wins when the device disagrees with the config  *)
(* (the pin/remember column of registers.py and the [pin] overrides), and  *)
(* what counts as a problem.  Pure operators over the sets of confirmed and*)
(* mismatched registers that an observation window collects.               *)
(***************************************************************************)
EXTENDS RoutingPlan

PIN      == "pin"
REMEMBER == "remember"

\* The playback mix matrix: never reported, re-established instead.
IsPlaybackMix(r) == r[1] = "mix" /\ r[3] = "playback"

RegisterEverReported(r) == ~IsPlaybackMix(r)

\* A per-channel register with a settable domain; the stereo flags and 48v
\* are declared without one.
IsChannelState(r) ==
  /\ r[1] \in {"input", "output"}
  /\ r[3] \notin {"stereo", "48v"}

ColdPlugComplete(r) == r[1] \in {"output", "playback"} /\ r[3] = "stereo"

\* Whether the absence of a report is a problem rather than a note.
RegisterPromptlyReported(r) ==
  /\ RegisterEverReported(r)
  /\ IsChannelState(r) => ColdPlugComplete(r)

\* The default of the register table: faders, mutes and phases are
\* remembered, links, mixes and the analogue settings are pinned.
RegisterPolicy(r) ==
  IF r[1] # "mix" /\ r[3] \in {"volume", "mute", "phase"} THEN REMEMBER ELSE PIN

\* A [pin] entry, keyed by (family, option), beats the table.
PolicyFor(config, r) ==
  IF Len(r) = 3 /\ <<r[1], r[3]>> \in DOMAIN config.policies
  THEN config.policies[<<r[1], r[3]>>]
  ELSE RegisterPolicy(r)

----------------------------------------------------------------------------
(* Judging the outcome (confirmed, mismatched) of one window.              *)

\* The early exit of the observation window.
WindowMayClose(registers, confirmed, mismatched) ==
  LET reportable == {r \in registers : RegisterEverReported(r)}
  IN  /\ mismatched = {}
      /\ \/ confirmed = registers
         \/ reportable # {} /\ reportable \subseteq confirmed

\* What is worth a second apply: a pinned register that disagrees, and a
\* promptly reported one that never appeared.
Unconfirmed(config, registers, confirmed, mismatched) ==
  LET unobserved == registers \ (confirmed \union mismatched)
  IN  {r \in mismatched : PolicyFor(config, r) = PIN}
        \union {r \in unobserved : RegisterPromptlyReported(r)}

\* What the device is allowed to keep.
KeptByTheDevice(config, mismatched) ==
  {r \in mismatched : PolicyFor(config, r) # PIN}

=============================================================================
