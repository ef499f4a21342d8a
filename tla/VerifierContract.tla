--------------------------- MODULE VerifierContract ---------------------------
(***************************************************************************)
(* What the background verifier promises to whoever stops the session      *)
(* (ADR 0009), without any of the ways it keeps the promise: it writes the *)
(* routing at most three times, it begins no write once it was told to     *)
(* stop, and it comes back to nothing after it has ended.                  *)
(*                                                                         *)
(* The mix is re-applied at most once and the whole routing at most once;  *)
(* when the device cannot be observed the mix is re-applied blindly, and   *)
(* that write is the last thing the verifier does.                         *)
(***************************************************************************)

VARIABLES
  stopping,  \* a stop was requested, or the backend is dead
  phase,     \* "idle", "writing", "last" (the blind write), "ended"
  left       \* the writes it may still begin

vars == <<stopping, phase, left>>

Init ==
  /\ stopping = FALSE
  /\ phase = "idle"
  /\ left = {"mix", "apply"}

Stop ==
  /\ ~stopping
  /\ stopping' = TRUE
  /\ UNCHANGED <<phase, left>>

\* Re-apply the mix, or the whole routing.
Write(w) ==
  /\ phase = "idle" /\ ~stopping /\ w \in left
  /\ phase' = "writing"
  /\ left' = left \ {w}
  /\ UNCHANGED stopping

Written ==
  /\ phase = "writing"
  /\ phase' = "idle"
  /\ UNCHANGED <<stopping, left>>

WriteBlindly ==
  /\ phase = "idle" /\ ~stopping
  /\ phase' = "last"
  /\ UNCHANGED <<stopping, left>>

\* It returns, or is cut with the process.
End ==
  /\ phase # "ended"
  /\ phase' = "ended"
  /\ UNCHANGED <<stopping, left>>

Next == Stop \/ Write("mix") \/ Write("apply") \/ Written \/ WriteBlindly \/ End

Spec == Init /\ [][Next]_vars

=============================================================================
