---------------------------- MODULE StaleBackend ----------------------------
(***************************************************************************)
(* Clearing the OSC port of a leftover oscmix before the session starts    *)
(* its own (process.py).  The cleanup finds process numbers in one scan of *)
(* /proc and signals them one by one; the processes behind those numbers   *)
(* come and go meanwhile.  Lifecycle says when the steps happen.           *)
(***************************************************************************)
EXTENDS Naturals, FiniteSets

CONSTANT Pid \* process numbers

VARIABLES
  proc,   \* what runs under each number: nothing, a leftover oscmix, a stranger
  todo,   \* the numbers found in the scan and not yet signalled
  fd,     \* what pidfd_open got: nothing yet, a pidfd, or an error
  late,   \* history: the number changed hands before its pidfd was opened
  struck  \* history: a stranger was sent SIGTERM

staleVars == <<proc, todo, fd, late, struck>>

\* A pidfd refers to a process and not to a number: "of" is that process, and
\* becomes "none" when it exits.
NoFd   == [got |-> "nothing", of |-> "none"]
Failed == [got |-> "error", of |-> "none"]

StaleTypeOK ==
  /\ proc \in [Pid -> {"none", "oscmix", "stranger"}]
  /\ todo \subseteq Pid
  /\ fd \in [got : {"nothing", "pidfd", "error"}, of : {"none", "oscmix", "stranger"}]
  /\ late \in BOOLEAN /\ struck \in BOOLEAN

StaleInit ==
  /\ proc \in [Pid -> {"none", "oscmix"}]
  /\ todo = {} /\ fd = NoFd /\ late = FALSE /\ struck = FALSE

Stale    == {p \in Pid : proc[p] = "oscmix"}
PortHeld == Stale # {}

\* The numbers are signalled in some fixed order.
Current == CHOOSE p \in todo : TRUE

\* _cleanup_stale_backend found the port taken: the numbers of this user's
\* processes that are called oscmix.
Scan ==
  /\ PortHeld
  /\ todo' = Stale
  /\ UNCHANGED <<proc, fd, late, struck>>

\* _terminate, its first half.  pidfd_open takes whatever process the number
\* denotes now; it fails when none does, and where the call is not available.
OpenPidfd ==
  /\ todo # {} /\ fd = NoFd
  /\ \/ /\ proc[Current] # "none"
        /\ fd' = [got |-> "pidfd", of |-> proc[Current]]
     \/ fd' = Failed
  /\ UNCHANGED <<proc, todo, late, struck>>

\* bug: the signal goes to the number, pidfd or not.
SendSigtermToNumber ==
  /\ fd # NoFd
  /\ struck' = (struck \/ proc[Current] = "stranger")
  /\ todo' = todo \ {Current}
  /\ fd' = NoFd
  /\ UNCHANGED <<proc, late>>

\* Its second half: the process of the pidfd is signalled, or without one
\* whatever process has the number by now.
SendSigterm ==
  /\ fd # NoFd
  /\ LET hit == IF fd.got = "pidfd" THEN fd.of ELSE proc[Current]
     IN struck' = (struck \/ hit = "stranger")
  /\ todo' = todo \ {Current}
  /\ fd' = NoFd
  /\ UNCHANGED <<proc, late>>

\* A leftover oscmix exits, of itself or on the signal, at any time or never.
Vanish(p) ==
  /\ proc[p] = "oscmix"
  /\ proc' = [proc EXCEPT ![p] = "none"]
  /\ fd' = IF fd.got = "pidfd" /\ p = Current THEN [got |-> "pidfd", of |-> "none"] ELSE fd
  /\ UNCHANGED <<todo, late, struck>>

\* The kernel hands a number the cleanup still holds to another process.
Reuse(p) ==
  /\ p \in todo /\ proc[p] = "none"
  /\ proc' = [proc EXCEPT ![p] = "stranger"]
  /\ late' = (late \/ p # Current \/ fd.got # "pidfd")
  /\ UNCHANGED <<todo, fd, struck>>
=============================================================================
