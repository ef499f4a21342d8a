------------------------------ MODULE Lifecycle ------------------------------
(***************************************************************************)
(* The service around the session: the systemd user unit, the udev rule    *)
(* and the sleep hook that start, stop and reload it, the processes it     *)
(* keeps (session.py, process.py, discovery.py), and the deadlines they    *)
(* have to meet.  What goes over the wire is Session's; here an apply is   *)
(* its barrier and a verifier is how long it may not look for a stop.      *)
(* One Tick is half a second.  Computing takes no time: what is due        *)
(* happens before the next Tick, and only the waits add up, as they do in  *)
(* constants.startup_budget.                                               *)
(***************************************************************************)
EXTENDS StaleBackend, Integers

CONSTANTS
  DeviceTimeout,    \* --timeout, the wait for the ALSA client
  DevicePoll,       \* how often it looks
  Settle,           \* STALE_BACKEND_SETTLE
  PortTimeout,      \* PORT_READY_TIMEOUT
  Barrier,          \* max(LINK_ECHO_TIMEOUT, LINK_SETTLE)
  Poll,             \* child.wait(timeout=...) of supervise
  Reread,           \* VERIFY_TIMEOUT, the dump before a reconcile
  ChildGrace,       \* CHILD_STOP_GRACE
  VerifierGrace,    \* VERIFIER_STOP_GRACE
  StartTimeout,     \* TimeoutStartSec
  StopTimeout,      \* TimeoutStopSec
  RestartDelay,     \* RestartSec
  StartBurst        \* StartLimitBurst

\* startup_budget, and the same sum for a stop that finds the session past its
\* wait for the port.
StartupBudget == DeviceTimeout + Settle + PortTimeout + Barrier
StopBudget    == Barrier + Poll + (ChildGrace + Poll) + VerifierGrace

ASSUME Durations ==
  /\ DeviceTimeout \in Nat /\ Settle \in Nat /\ PortTimeout \in Nat /\ Barrier \in Nat
  /\ Reread \in Nat /\ VerifierGrace \in Nat /\ ChildGrace \in Nat /\ RestartDelay \in Nat
  /\ DevicePoll \in Nat \ {0} /\ Poll \in Nat \ {0} /\ StartBurst \in Nat \ {0}
  /\ StartTimeout \in Nat \ {0} /\ StopTimeout \in Nat \ {0}

\* What tests/test_unit_file.py holds against the unit file, and the verifier's
\* grace against its longest wait.
ASSUME Budgets ==
  /\ StartupBudget < StartTimeout
  /\ StopBudget < StopTimeout
  /\ Barrier < VerifierGrace

VARIABLES
  unit, clock, queued, starts,   \* systemd: the unit, its timer, a start job, the burst
  plugged, client,               \* the device on USB, and as an ALSA client
  pc, left, result,              \* the session, its present wait, its exit code
  stop, reload, grace,           \* supervision: stop and reload requested, until SIGKILL
  ready,                         \* READY=1 was sent
  child, deaf,                   \* the backend, and whether it ignores SIGTERM
  verifier, verifierLeft,        \* the verifier thread and its present wait
  asked, stopAt, cut             \* history: what the last plug-in did for the unit, where
                                 \* a stop met the session, SIGKILL met it still running

unitVars     == <<unit, clock, queued, starts>>
deviceVars   == <<plugged, client>>
sessionVars  == <<pc, left, result, ready>>
signalVars   == <<stop, reload, grace>>
childVars    == <<child, deaf>>
verifierVars == <<verifier, verifierLeft>>
history      == <<asked, stopAt, cut>>
vars == <<unitVars, deviceVars, sessionVars, signalVars, childVars, verifierVars, history,
          staleVars>>

NoGrace == -1

\* Handlers for SIGTERM and SIGHUP are in place from "port" on.
Deafened == {"boot", "find", "cleanup", "drain", "spawn", "handlers"}
Handled  == {"port", "barrier", "supervise", "reread", "rewrite", "stopcheck", "join", "exit"}
PCs      == Deafened \union Handled \union {"none", "gone"}

UnitTypeOK ==
  /\ unit \in {"inactive", "starting", "active", "stopping", "restarting", "failed"}
  /\ clock \in Nat /\ queued \in BOOLEAN /\ starts \in 0..StartBurst

SessionTypeOK ==
  /\ pc \in PCs /\ left \in Nat /\ result \in {"none", "0", "1", "2", "signal", "killed"}
  /\ ready \in BOOLEAN

SupervisionTypeOK ==
  /\ stop \in BOOLEAN /\ reload \in BOOLEAN /\ grace \in {NoGrace} \union Nat
  /\ child \in {"none", "binding", "up", "gone"} /\ deaf \in BOOLEAN
  /\ verifier \in {"none", "free", "barrier"} /\ verifierLeft \in Nat

(* The timers of the unit and of the session's waits never run below zero, *)
(* and every variable holds what systemd or the code can put there.        *)
LifecycleTypeOK ==
  /\ StaleTypeOK /\ UnitTypeOK /\ SessionTypeOK /\ SupervisionTypeOK
  /\ plugged \in BOOLEAN /\ client \in BOOLEAN
  /\ asked \in {"no", "start", "nothing"} /\ stopAt \in PCs /\ cut \in BOOLEAN

Init ==
  /\ StaleInit
  /\ unit = "inactive" /\ clock = 0 /\ queued = FALSE /\ starts = 0
  /\ plugged = FALSE /\ client = FALSE
  /\ pc = "none" /\ left = 0 /\ result = "none"
  /\ stop = FALSE /\ reload = FALSE /\ grace = NoGrace /\ ready = FALSE
  /\ child = "none" /\ deaf = FALSE
  /\ verifier = "none" /\ verifierLeft = 0
  /\ asked = "no" /\ stopAt = "none" /\ cut = FALSE

ChildLives == child \in {"binding", "up"}
Listening  == child = "up" \/ PortHeld
ShouldStop == stop \/ ~ChildLives

-----------------------------------------------------------------------------
\* systemd and udev (external; the directives are those of oscmix.service).

\* A start job gets through: Type=notify, so READY=1 is awaited.  Beyond
\* StartLimitBurst the unit fails instead.
StartUnit ==
  IF starts < StartBurst
  THEN /\ unit' = "starting" /\ clock' = StartTimeout /\ starts' = starts + 1
       /\ pc' = "boot" /\ left' = 0 /\ result' = "none" /\ ready' = FALSE
       /\ stop' = FALSE /\ reload' = FALSE /\ grace' = NoGrace
       /\ child' = "none" /\ deaf' = FALSE
       /\ verifier' = "none" /\ verifierLeft' = 0
       /\ todo' = {} /\ fd' = NoFd /\ late' = FALSE /\ struck' = FALSE
       /\ stopAt' = "none" /\ cut' = FALSE
       /\ UNCHANGED <<queued, proc>>
  ELSE /\ unit' = "failed" /\ clock' = 0
       /\ UNCHANGED <<queued, starts, sessionVars, signalVars, childVars, verifierVars,
                      stopAt, cut, staleVars>>

Startable == unit \in {"inactive", "failed", "restarting"}

\* The device is plugged in: the udev rule has the unit started.  A unit that
\* is up, or on its way, already satisfies the job; one that is stopping gets
\* the job queued.
Plug ==
  /\ ~plugged
  /\ plugged' = TRUE
  /\ asked' = IF unit \in {"starting", "active"} THEN "nothing" ELSE "start"
  /\ IF Startable
     THEN StartUnit
     ELSE /\ queued' = (unit = "stopping")
          /\ UNCHANGED <<unit, clock, starts, sessionVars, signalVars, childVars,
                         verifierVars, stopAt, cut, staleVars>>
  /\ UNCHANGED client

\* snd-usb-audio offers the sequencer client some time after USB sees the device.
ClientAppears ==
  /\ plugged /\ ~client
  /\ client' = TRUE
  /\ UNCHANGED <<unitVars, plugged, sessionVars, signalVars, childVars, verifierVars,
                 history, staleVars>>

\* SIGTERM to every process of the unit (KillMode is the default).  Before the
\* session has its handlers the signal ends it; afterwards handle_stop asks for
\* a stop.  The backend exits, or ignores it.
Terminate ==
  /\ stopAt' = pc
  /\ IF pc \in Deafened
     THEN pc' = "gone" /\ result' = "signal" /\ UNCHANGED stop
     ELSE stop' = (stop \/ pc \in Handled) /\ UNCHANGED <<pc, result>>
  /\ \/ ChildLives /\ child' = "gone" /\ UNCHANGED deaf
     \/ ChildLives /\ deaf' = TRUE /\ UNCHANGED child
     \/ ~ChildLives /\ UNCHANGED childVars

StopRunning ==
  /\ unit' = "stopping" /\ clock' = StopTimeout
  /\ Terminate
  /\ UNCHANGED <<queued, starts, left, ready, reload, grace, verifierVars, cut>>

\* systemctl stop, by hand or at logout.
Stop ==
  /\ unit \in {"starting", "active", "restarting"}
  /\ asked' = "no"
  /\ IF unit = "restarting"
     THEN /\ unit' = "inactive" /\ clock' = 0
          /\ UNCHANGED <<queued, starts, sessionVars, signalVars, childVars, verifierVars,
                         stopAt, cut>>
     ELSE StopRunning
  /\ UNCHANGED <<deviceVars, staleVars>>

\* The device is unplugged.  StopWhenUnneeded stops the unit only where nothing
\* else wants it; where it is enabled, as install.sh leaves it, default.target
\* does, and the backend is left to notice.
Unplug ==
  /\ plugged
  /\ plugged' = FALSE /\ client' = FALSE
  /\ \/ unit \in {"starting", "active"} /\ StopRunning
     \/ UNCHANGED <<unitVars, sessionVars, signalVars, childVars, verifierVars, stopAt, cut>>
  /\ UNCHANGED <<asked, staleVars>>

\* READY=1 arrives.
Started ==
  /\ unit = "starting" /\ ready
  /\ unit' = "active" /\ clock' = 0
  /\ UNCHANGED <<queued, starts, deviceVars, sessionVars, signalVars, childVars,
                 verifierVars, history, staleVars>>

\* What becomes of a unit that has ended: an exit code other than 2, a signal,
\* or an exit without READY=1 is a failure that Restart=on-failure answers.
Aftermath ==
  IF unit = "stopping"
  THEN IF queued THEN "restarting" ELSE IF result = "killed" THEN "failed" ELSE "inactive"
  ELSE IF result = "2" THEN "failed"
       ELSE IF result = "0" /\ ready THEN "inactive" ELSE "restarting"

\* The processes of the unit are gone, and everything they sent is read.
Ended ==
  /\ pc = "gone" /\ ~ChildLives /\ unit \in {"starting", "active", "stopping"}
  /\ ~(unit = "starting" /\ ready)
  /\ pc' = "none"
  /\ unit' = Aftermath
  /\ clock' = IF Aftermath = "restarting" /\ ~queued THEN RestartDelay ELSE 0
  /\ queued' = FALSE
  /\ UNCHANGED <<starts, deviceVars, left, result, ready, signalVars, childVars,
                 verifierVars, history, staleVars>>

RestartDue ==
  /\ unit = "restarting" /\ clock = 0
  /\ StartUnit
  /\ UNCHANGED <<deviceVars, asked>>

\* TimeoutStopSec is over: SIGKILL to what is left.
KillUnit ==
  /\ unit = "stopping" /\ clock = 0
  /\ ~(pc = "gone" /\ ~ChildLives)
  /\ cut' = (pc # "gone")
  /\ pc' = "gone" /\ result' = "killed"
  /\ child' = "gone"
  /\ UNCHANGED <<unitVars, deviceVars, left, ready, signalVars, deaf, verifierVars,
                 asked, stopAt, staleVars>>

\* StartLimitIntervalSec has passed.
BurstForgotten ==
  /\ starts > 0 /\ starts' = 0
  /\ UNCHANGED <<unit, clock, queued, deviceVars, sessionVars, signalVars, childVars,
                 verifierVars, history, staleVars>>

\* The launcher, or a hand: the unit is not active, so reset-failed, then
\* start --no-block.
EnsureBackend ==
  /\ Startable
  /\ asked' = "start"
  /\ unit' = "restarting" /\ clock' = 0 /\ starts' = 0
  /\ UNCHANGED <<queued, deviceVars, sessionVars, signalVars, childVars, verifierVars,
                 stopAt, cut, staleVars>>

\* ExecReload, from the sleep hook: SIGHUP to the main process of an active
\* unit.  handle_reload only sets the flag; without a handler it is fatal.
Reload ==
  /\ unit = "active" /\ pc \notin {"gone", "none"}
  /\ reload' = (pc \in Handled)
  /\ pc' = IF pc \in Handled THEN pc ELSE "gone"
  /\ result' = IF pc \in Handled THEN result ELSE "signal"
  /\ UNCHANGED <<unitVars, deviceVars, left, ready, stop, grace, childVars, verifierVars,
                 history, staleVars>>

-----------------------------------------------------------------------------
\* The session.

Exit(code) == pc' = "gone" /\ result' = code
Waits(where, ticks) == pc' = where /\ left' = ticks

\* What a step of the session leaves alone unless it says otherwise.
SessionOnly == UNCHANGED <<unitVars, deviceVars, signalVars, childVars, verifierVars, history>>

\* cli.main reads the configuration first: no code of a bad one is retried.
LoadConfig ==
  /\ pc = "boot"
  /\ \/ Waits("find", DeviceTimeout) /\ UNCHANGED result
     \/ Exit("2") /\ UNCHANGED left
  /\ UNCHANGED ready
  /\ SessionOnly /\ UNCHANGED staleVars

\* wait_for_seq_client looks every DevicePoll ticks, the last time when the
\* timeout is over.  (A look that finds nothing before that is not a step.)
LooksForClient ==
  pc = "find" /\ (left = 0 \/ (client /\ (DeviceTimeout - left) % DevicePoll = 0))

FindClient ==
  /\ LooksForClient /\ client
  /\ Waits("cleanup", 0)
  /\ UNCHANGED <<result, ready>>
  /\ SessionOnly /\ UNCHANGED staleVars

\* No client: a clean no-op start without the device, a failure with it.
GiveUp ==
  /\ LooksForClient /\ ~client
  /\ ready' = (ready \/ ~plugged)
  /\ Exit(IF plugged THEN "1" ELSE "0")
  /\ UNCHANGED left
  /\ SessionOnly /\ UNCHANGED staleVars

\* _cleanup_stale_backend.
PortIsFree ==
  /\ pc = "cleanup" /\ todo = {} /\ ~PortHeld
  /\ Waits("spawn", 0)
  /\ UNCHANGED <<result, ready>>
  /\ SessionOnly /\ UNCHANGED staleVars

ScanForStale ==
  /\ pc = "cleanup" /\ todo = {}
  /\ Scan
  /\ UNCHANGED sessionVars /\ SessionOnly

TerminateStale ==
  /\ pc = "cleanup"
  /\ \/ OpenPidfd /\ UNCHANGED sessionVars
     \/ /\ SendSigterm
        /\ IF todo' = {} THEN Waits("drain", Settle) ELSE UNCHANGED <<pc, left>>
        /\ UNCHANGED <<result, ready>>
  /\ SessionOnly

Drained ==
  /\ pc = "drain" /\ left = 0
  /\ Waits("spawn", 0)
  /\ UNCHANGED <<result, ready>>
  /\ SessionOnly /\ UNCHANGED staleVars

\* bug: READY=1 as soon as the backend process exists.
SpawnAnnounces ==
  /\ pc = "spawn"
  /\ child' = "binding" /\ ready' = TRUE
  /\ Waits("handlers", 0)
  /\ UNCHANGED <<unitVars, deviceVars, result, signalVars, deaf, verifierVars, history,
                 staleVars>>

\* _start_backend, or no binary to start.
Spawn ==
  /\ pc = "spawn"
  /\ \/ child' = "binding" /\ Waits("handlers", 0) /\ UNCHANGED result
     \/ Exit("1") /\ UNCHANGED <<child, left>>
  /\ UNCHANGED <<unitVars, deviceVars, ready, signalVars, deaf, verifierVars, history,
                 staleVars>>

InstallHandlers ==
  /\ pc = "handlers"
  /\ Waits("port", PortTimeout)
  /\ UNCHANGED <<result, ready>>
  /\ SessionOnly /\ UNCHANGED staleVars

\* _await_backend_port: any listener on the port ends the wait, and a dead
\* child, and the timeout.  A live child then gets its routing, if there is any.
PortSettled == pc = "port" /\ (Listening \/ ~ChildLives \/ left = 0)

ApplyRouting ==
  /\ PortSettled /\ ChildLives
  /\ Waits("barrier", Barrier)
  /\ UNCHANGED <<result, ready>>
  /\ SessionOnly /\ UNCHANGED staleVars

\* bug: nothing to apply, hence nothing to announce.
NothingDeclaredSilently ==
  /\ PortSettled /\ ChildLives
  /\ Waits("supervise", Poll)
  /\ UNCHANGED <<result, ready>>
  /\ SessionOnly /\ UNCHANGED staleVars

NothingDeclared ==
  /\ PortSettled /\ ChildLives
  /\ ready' = TRUE
  /\ Waits("supervise", Poll)
  /\ UNCHANGED result
  /\ SessionOnly /\ UNCHANGED staleVars

BackendNeverCame ==
  /\ PortSettled /\ ~ChildLives
  /\ Waits("supervise", 0)
  /\ UNCHANGED <<result, ready>>
  /\ SessionOnly /\ UNCHANGED staleVars

\* The barrier ends with the echo or with its timeout; the mix is written, the
\* verifier started, READY=1 sent.
Applied ==
  /\ pc = "barrier"
  /\ ready' = TRUE
  /\ verifier' = "free" /\ verifierLeft' = 1
  /\ Waits("supervise", Poll)
  /\ UNCHANGED <<unitVars, deviceVars, result, signalVars, childVars, history, staleVars>>

\* supervise: child.wait returns, or its timeout expires.
ChildReaped ==
  /\ pc = "supervise" /\ ~ChildLives
  /\ Waits("join", VerifierGrace)
  /\ UNCHANGED <<result, ready>>
  /\ SessionOnly /\ UNCHANGED staleVars

Wakes == pc = "supervise" /\ ChildLives /\ left = 0

\* The flag is cleared before the reconcile runs.
TakeReload ==
  /\ Wakes /\ reload /\ ~stop
  /\ reload' = FALSE
  /\ Waits("reread", Reread)
  /\ UNCHANGED <<unitVars, deviceVars, result, ready, stop, grace, childVars, verifierVars,
                 history, staleVars>>

\* bug: the dump is waited for without a deadline.
RereadNeedsAnswer ==
  /\ pc = "reread"
  /\ \/ ~stop /\ ChildLives /\ Waits("rewrite", Barrier)
     \/ stop /\ Waits("stopcheck", 0)
  /\ UNCHANGED <<result, ready>>
  /\ SessionOnly /\ UNCHANGED staleVars

\* The dump before a reconcile ends, with a rewrite after it unless a stop came
\* or there is nothing to go by.
RereadEnds ==
  /\ pc = "reread"
  /\ \/ ~stop /\ Waits("rewrite", Barrier)
     \/ Waits("stopcheck", 0)
  /\ UNCHANGED <<result, ready>>
  /\ SessionOnly /\ UNCHANGED staleVars

RewriteEnds ==
  /\ pc = "rewrite"
  /\ Waits("stopcheck", 0)
  /\ UNCHANGED <<result, ready>>
  /\ SessionOnly /\ UNCHANGED staleVars

ChecksStop == (Wakes /\ (reload => stop)) \/ pc = "stopcheck"

\* bug: every look that finds the stop starts the grace anew.
StaysUpForever ==
  /\ ChecksStop /\ ~(stop /\ grace = 0)
  /\ grace' = IF stop THEN ChildGrace ELSE grace
  /\ Waits("supervise", Poll)
  /\ UNCHANGED <<unitVars, deviceVars, result, ready, stop, reload, childVars, verifierVars,
                 history, staleVars>>

\* Nothing to do, or the first look that finds the stop, or one within the grace.
StaysUp ==
  /\ ChecksStop /\ ~(stop /\ grace = 0)
  /\ grace' = IF stop /\ grace = NoGrace THEN ChildGrace ELSE grace
  /\ Waits("supervise", Poll)
  /\ UNCHANGED <<unitVars, deviceVars, result, ready, stop, reload, childVars, verifierVars,
                 history, staleVars>>

\* bug: the grace of the backend is taken off the verifier's.
KillBackendDeducts ==
  /\ ChecksStop /\ stop /\ grace = 0
  /\ child' = "gone"
  /\ Waits("join", VerifierGrace - ChildGrace)
  /\ UNCHANGED <<unitVars, deviceVars, result, ready, signalVars, deaf, verifierVars, history,
                 staleVars>>

KillBackend ==
  /\ ChecksStop /\ stop /\ grace = 0
  /\ child' = "gone"
  /\ Waits("join", VerifierGrace)
  /\ UNCHANGED <<unitVars, deviceVars, result, ready, signalVars, deaf, verifierVars, history,
                 staleVars>>

\* bug: the process exits when supervise returns.
JoinedAtOnce ==
  /\ pc = "join"
  /\ Waits("exit", 0)
  /\ UNCHANGED <<result, ready>>
  /\ SessionOnly /\ UNCHANGED staleVars

\* _await_verifier: until the thread is done or its grace is over.
Joined ==
  /\ pc = "join" /\ (verifier = "none" \/ left = 0)
  /\ Waits("exit", 0)
  /\ UNCHANGED <<result, ready>>
  /\ SessionOnly /\ UNCHANGED staleVars

\* bug: a session that never got to READY=1 exits cleanly all the same.
ExitCodeSilently ==
  /\ pc = "exit"
  /\ \E clean \in BOOLEAN : Exit(IF stop \/ ~plugged \/ clean THEN "0" ELSE "1")
  /\ verifier' = "none"
  /\ UNCHANGED <<unitVars, deviceVars, left, ready, signalVars, childVars, verifierLeft,
                 history, staleVars>>

\* _exit_code_for.  What the backend returned is only looked at with no stop
\* requested and the device there.
ExitCode ==
  /\ pc = "exit"
  /\ \E clean \in BOOLEAN :
       IF stop \/ ~plugged \/ clean
       THEN ready' = TRUE /\ Exit("0")
       ELSE UNCHANGED ready /\ Exit("1")
  /\ verifier' = "none"
  /\ UNCHANGED <<unitVars, deviceVars, left, signalVars, childVars, verifierLeft, history,
                 staleVars>>

-----------------------------------------------------------------------------
\* The backend and the verifier.

\* oscmix binds the port, or finds it taken and exits.
Bind ==
  /\ child = "binding"
  /\ child' = IF PortHeld THEN "gone" ELSE "up"
  /\ UNCHANGED <<unitVars, deviceVars, sessionVars, signalVars, deaf, verifierVars, history,
                 staleVars>>

\* It crashes, exits because the device is gone, or after all on the SIGTERM.
BackendExits ==
  /\ ChildLives
  /\ child' = "gone"
  /\ UNCHANGED <<unitVars, deviceVars, sessionVars, signalVars, deaf, verifierVars, history,
                 staleVars>>

\* The verifier looks for a stop within one Tick (a socket timeout), except inside the
\* barrier of the apply with which it repairs.
VerifierRepairs ==
  /\ verifier = "free" /\ ~ShouldStop
  /\ verifier' = "barrier" /\ verifierLeft' = Barrier
  /\ UNCHANGED <<unitVars, deviceVars, sessionVars, signalVars, childVars, history, staleVars>>

VerifierRepaired ==
  /\ verifier = "barrier"
  /\ verifier' = "free" /\ verifierLeft' = 1
  /\ UNCHANGED <<unitVars, deviceVars, sessionVars, signalVars, childVars, history, staleVars>>

VerifierEnds ==
  /\ verifier = "free"
  /\ verifier' = "none" /\ verifierLeft' = 0
  /\ UNCHANGED <<unitVars, deviceVars, sessionVars, signalVars, childVars, history, staleVars>>

StaleChanges ==
  /\ \/ \E p \in Pid : Vanish(p)
     \/ \E p \in Pid : Reuse(p)
  /\ UNCHANGED <<unitVars, deviceVars, sessionVars, signalVars, childVars, verifierVars, history>>

-----------------------------------------------------------------------------
\* Half a second passes, with nothing left that is due now.

SessionDue ==
  \/ pc \in {"boot", "cleanup", "spawn", "handlers", "stopcheck", "exit"}
  \/ LooksForClient
  \/ pc \in {"drain", "barrier", "reread", "rewrite", "supervise"} /\ left = 0
  \/ PortSettled
  \/ pc = "supervise" /\ ~ChildLives
  \/ pc = "join" /\ (verifier = "none" \/ left = 0)

VerifierDue == verifier # "none" /\ verifierLeft = 0

UnitDue ==
  \/ unit = "starting" /\ ready
  \/ pc = "gone" /\ ~ChildLives
  \/ unit \in {"restarting", "stopping"} /\ clock = 0

CountDown(n) == IF n > 0 THEN n - 1 ELSE n

Tick ==
  /\ ~SessionDue /\ ~VerifierDue /\ ~UnitDue
  /\ clock' = CountDown(clock)
  \* A stop ends the dump of a reconcile at its next look.
  /\ left' = IF pc = "reread" /\ stop THEN 0 ELSE CountDown(left)
  /\ grace' = CountDown(grace)
  /\ verifierLeft' = IF verifier = "free" /\ ~ShouldStop THEN 1 ELSE CountDown(verifierLeft)
  /\ UNCHANGED <<unit, queued, starts, deviceVars, pc, result, ready, stop, reload, childVars,
                 verifier, history, staleVars>>

SessionNext ==
  \/ LoadConfig \/ FindClient \/ GiveUp
  \/ PortIsFree \/ ScanForStale \/ TerminateStale \/ Drained
  \/ Spawn \/ InstallHandlers
  \/ ApplyRouting \/ NothingDeclared \/ BackendNeverCame \/ Applied
  \/ ChildReaped \/ TakeReload \/ RereadEnds \/ RewriteEnds \/ StaysUp \/ KillBackend
  \/ Joined \/ ExitCode

VerifierNext == VerifierRepairs \/ VerifierRepaired \/ VerifierEnds
UnitNext     == Started \/ Ended \/ RestartDue \/ KillUnit
WorldNext    == \/ Plug \/ Unplug \/ ClientAppears \/ Stop \/ EnsureBackend \/ Reload
                \/ BurstForgotten \/ Bind \/ BackendExits \/ StaleChanges

Next == SessionNext \/ VerifierNext \/ UnitNext \/ WorldNext \/ Tick

Spec == Init /\ [][Next]_vars

\* The session, its verifier and systemd go on, and time passes.
FairSpec ==
  /\ Spec
  /\ WF_vars(SessionNext) /\ WF_vars(VerifierNext) /\ WF_vars(UnitNext) /\ WF_vars(Tick)

-----------------------------------------------------------------------------

(* systemd never runs into TimeoutStartSec, which would kill the session   *)
(* in the middle of its apply: whatever the start waits for, READY=1 or an *)
(* exit comes first (constants.startup_budget).                            *)
StartFits == unit = "starting" => clock > 0

(* A stop never runs into TimeoutStopSec with the session still at work,   *)
(* unless it fell into the wait for the port, whose ten seconds nobody     *)
(* counted: a reconcile, the barrier, a backend that ignores SIGTERM and a *)
(* verifier in its own barrier all fit, one after the other (ADR 0009).    *)
StopFits == cut => stopAt = "port"

(* The same without the exception: the numbers compose, as ADR 0009 says.  *)
StopNeedsNoKill == ~cut

(* The session outlives the verifier: it is never gone while the thread is *)
(* inside an apply, between two of its writes (_await_verifier).           *)
VerifierEndsFirst == pc \in {"exit", "gone"} /\ ~cut => verifier # "barrier"

(* Every exit with code 0 has signalled READY=1, on all the paths that     *)
(* lead to one: without it Type=notify makes a restart loop of it.         *)
CleanExitIsReady == pc = "gone" /\ result = "0" => ready

(* A SIGHUP of the sleep hook never kills the session: systemd sends none  *)
(* before READY=1, and by then the handler is in place.  Only a stop ends  *)
(* a session by signal.                                                    *)
ReloadNeverKills == pc = "gone" /\ result = "signal" => unit = "stopping"

(* The cleanup signals a stranger only if the number changed hands before  *)
(* its pidfd was opened (or no pidfd was to be had): once opened, the race *)
(* is won.                                                                 *)
StrangerOnlyIfLate == struck => late

(* The same without the exception: "the race cannot be lost".              *)
NoStranger == ~struck

(* A replug is a full restart (ADR 0013, the sleep hook): with the device  *)
(* back the unit does not end up inactive with nobody having stopped it.   *)
ReplugIsServed == ~(plugged /\ asked = "nothing" /\ unit = "inactive")

(* The loss of the backend is always noticed, in the middle of a reconcile *)
(* or under a stream of SIGHUPs too: the unit does not stay active on it.  *)
LossIsNoticed == (child = "gone" /\ unit = "active") ~> unit # "active"
=============================================================================
