--------------------------- MODULE LifecycleProofs ---------------------------
(***************************************************************************)
(* For every value of the durations that satisfies the two budgets: the    *)
(* start of the unit and, past the wait for the port, its stop stay inside *)
(* systemd's timeouts, and the verifier ends before the session does.      *)
(* One inductive invariant carries all three: how much of a timeout may    *)
(* have passed when the session is where it is.                            *)
(***************************************************************************)
EXTENDS Lifecycle, TLAPS

\* Where the session is, and what that says about the unit, the child, the
\* verifier and the signals.
Before == Deafened \union {"port", "barrier"}
Late   == {"reread", "rewrite", "stopcheck"}

Places ==
  /\ unit \in {"starting", "active", "stopping"} <=> pc # "none"
  /\ unit = "active" => ready
  /\ pc \in Before => ~ready /\ verifier = "none"
  /\ pc \in {"boot", "find", "cleanup", "drain", "spawn", "join", "exit", "none"} => ~ChildLives
  /\ pc \in {"supervise", "join", "exit"} /\ ~ready => verifier = "none" /\ ~ChildLives
  /\ pc \in Late => ready
  /\ pc = "gone" /\ ChildLives => unit = "stopping"
  /\ pc \in Handled => (stop <=> unit = "stopping")
  /\ pc \in Deafened => ~stop /\ unit # "stopping"
  /\ ~stop => grace = NoGrace
  /\ pc \in Before \union Late => grace = NoGrace
  /\ pc = "gone" /\ ~cut => verifier = "none"
  /\ cut => ~ChildLives /\ (pc = "none" \/ (pc = "gone" /\ unit = "stopping"))

\* No wait is longer than it began.
Waiting ==
  /\ pc = "find"  => left <= DeviceTimeout
  /\ pc = "drain" => left <= Settle
  /\ pc = "port"  => left <= PortTimeout
  /\ pc \in {"barrier", "rewrite"} => left <= Barrier
  /\ pc = "supervise" => left <= Poll
  /\ pc = "join" => left <= VerifierGrace
  /\ verifier = "barrier" => verifierLeft <= Barrier

\* What is left of TimeoutStartSec.
StartBound ==
  unit = "starting" =>
    /\ pc = "boot"    => clock = StartTimeout
    /\ pc = "find"    => clock + DeviceTimeout >= StartTimeout + left
    /\ pc = "cleanup" => clock + DeviceTimeout >= StartTimeout
    /\ pc = "drain"   => clock + DeviceTimeout + Settle >= StartTimeout + left
    /\ pc \in {"spawn", "handlers"} => clock + DeviceTimeout + Settle >= StartTimeout
    /\ pc = "port"    => clock + DeviceTimeout + Settle + PortTimeout >= StartTimeout + left
    /\ pc = "barrier" => clock + StartupBudget >= StartTimeout + left
    /\ clock + StartupBudget >= StartTimeout

\* What is left of TimeoutStopSec, when the stop did not fall into the port wait.
StopBound ==
  unit = "stopping" /\ stopAt # "port" =>
    /\ pc # "port"
    /\ pc \in {"barrier", "rewrite"} => clock + Barrier >= StopTimeout + left
    /\ pc = "reread" => clock + (IF left = 0 THEN 1 ELSE 0) >= StopTimeout
    /\ pc = "stopcheck" => clock + Barrier + Poll >= StopTimeout
    /\ pc = "supervise" /\ grace = NoGrace => clock + Barrier + Poll >= StopTimeout + left
    /\ pc = "supervise" /\ grace # NoGrace =>
         clock + Barrier + Poll + ChildGrace >= StopTimeout + grace
           \/ (grace = 0 /\ clock + Barrier + Poll + ChildGrace + Poll >= StopTimeout + left)
    /\ pc = "join" => clock + StopBudget >= StopTimeout + left
    /\ pc # "gone" => clock + StopBudget >= StopTimeout

\* Once the session waits for the verifier, its barrier ends first.
JoinBound ==
  /\ pc = "join" /\ verifier = "barrier" => verifierLeft < left
  /\ VerifierEndsFirst

\* A stranger under a number still to be signalled came late, or is not what
\* the open pidfd refers to.
Strangers ==
  /\ \A p \in todo : proc[p] = "stranger" =>
       late \/ (p = Current /\ fd = [got |-> "pidfd", of |-> "none"])
  /\ fd.of = "stranger" => late
  /\ fd # NoFd => todo # {}
  /\ fd.got = "pidfd" => fd.of \in {"none", proc[Current]}
  /\ StrangerOnlyIfLate

IInv ==
  /\ LifecycleTypeOK /\ Places /\ Waiting /\ StartBound /\ StopBound /\ JoinBound
  /\ Strangers /\ StopFits /\ CleanExitIsReady /\ ReloadNeverKills

-----------------------------------------------------------------------------
(* The types.                                                              *)

\* Steps on the leftovers keep their variables typed.
LEMMA StaleSteps ==
  ASSUME LifecycleTypeOK, Scan \/ OpenPidfd \/ SendSigterm \/ (\E p \in Pid : Vanish(p) \/ Reuse(p))
  PROVE  StaleTypeOK'
<1> USE DEF LifecycleTypeOK, StaleTypeOK, NoFd, Failed
<1>1. CASE Scan
  BY <1>1 DEF Scan, Stale
<1>2. CASE OpenPidfd
  <2>1. Current \in todo
    BY <1>2 DEF OpenPidfd, Current
  <2>2. proc[Current] \in {"none", "oscmix", "stranger"}
    BY <2>1
  <2>3. fd' \in [got : {"nothing", "pidfd", "error"}, of : {"none", "oscmix", "stranger"}]
    BY <1>2, <2>2 DEF OpenPidfd
  <2> QED
    BY <1>2, <2>3 DEF OpenPidfd
<1>3. CASE SendSigterm
  <2>1. fd' \in [got : {"nothing", "pidfd", "error"}, of : {"none", "oscmix", "stranger"}]
    BY <1>3 DEF SendSigterm
  <2>2. todo' \subseteq Pid
    BY <1>3 DEF SendSigterm
  <2>3. struck' \in BOOLEAN
    BY <1>3 DEF SendSigterm
  <2> QED
    BY <1>3, <2>1, <2>2, <2>3 DEF SendSigterm
<1>4. ASSUME NEW p \in Pid, Vanish(p) PROVE StaleTypeOK'
  <2>1. proc' \in [Pid -> {"none", "oscmix", "stranger"}]
    BY <1>4 DEF Vanish
  <2>2. fd' \in [got : {"nothing", "pidfd", "error"}, of : {"none", "oscmix", "stranger"}]
    BY <1>4 DEF Vanish
  <2> QED
    BY <1>4, <2>1, <2>2 DEF Vanish
<1>5. ASSUME NEW p \in Pid, Reuse(p) PROVE StaleTypeOK'
  <2>1. proc' \in [Pid -> {"none", "oscmix", "stranger"}]
    BY <1>5 DEF Reuse
  <2>2. late' \in BOOLEAN
    BY <1>5 DEF Reuse
  <2> QED
    BY <1>5, <2>1, <2>2 DEF Reuse
<1> QED
  BY <1>1, <1>2, <1>3, <1>4, <1>5

\* A start leaves everything typed, whether the limit lets it through or not.
LEMMA StartUnitTypes ==
  ASSUME LifecycleTypeOK, StartUnit
  PROVE  /\ StaleTypeOK' /\ UnitTypeOK' /\ SessionTypeOK' /\ SupervisionTypeOK'
         /\ stopAt' \in PCs /\ cut' \in BOOLEAN
<1> USE Durations DEF LifecycleTypeOK, StaleTypeOK, UnitTypeOK, SessionTypeOK, SupervisionTypeOK,
                      sessionVars, signalVars, childVars, verifierVars, staleVars, NoFd
<1>1. CASE starts < StartBurst
  <2>1. /\ unit' = "starting" /\ clock' = StartTimeout /\ starts' = starts + 1
        /\ pc' = "boot" /\ left' = 0 /\ result' = "none" /\ ready' = FALSE
        /\ stop' = FALSE /\ reload' = FALSE /\ grace' = NoGrace
        /\ child' = "none" /\ deaf' = FALSE
        /\ verifier' = "none" /\ verifierLeft' = 0
        /\ todo' = {} /\ fd' = NoFd /\ late' = FALSE /\ struck' = FALSE
        /\ stopAt' = "none" /\ cut' = FALSE
        /\ queued' = queued /\ proc' = proc
    BY <1>1 DEF StartUnit
  <2>2. fd' \in [got : {"nothing", "pidfd", "error"}, of : {"none", "oscmix", "stranger"}]
    BY <2>1
  <2>3. StaleTypeOK'
    BY <2>1, <2>2
  <2>4. UnitTypeOK'
    BY <1>1, <2>1
  <2>5. SessionTypeOK'
    BY <2>1 DEF PCs, Deafened
  <2>6. SupervisionTypeOK'
    BY <2>1
  <2>7. stopAt' \in PCs /\ cut' \in BOOLEAN
    BY <2>1 DEF PCs
  <2> QED
    BY <2>3, <2>4, <2>5, <2>6, <2>7
<1>2. CASE ~(starts < StartBurst)
  <2> USE <1>2 DEF StartUnit
  <2>1. StaleTypeOK'
    OBVIOUS
  <2>2. UnitTypeOK'
    OBVIOUS
  <2>3. SessionTypeOK'
    OBVIOUS
  <2>4. SupervisionTypeOK'
    OBVIOUS
  <2>5. stopAt' \in PCs /\ cut' \in BOOLEAN
    OBVIOUS
  <2> QED
    BY <2>1, <2>2, <2>3, <2>4, <2>5
<1> QED
  BY <1>1, <1>2

\* So does the SIGTERM of a stop.
LEMMA StopTypes ==
  ASSUME LifecycleTypeOK, StopRunning
  PROVE  /\ UnitTypeOK' /\ SessionTypeOK' /\ SupervisionTypeOK'
         /\ stopAt' \in PCs /\ cut' \in BOOLEAN
<1> USE Durations DEF LifecycleTypeOK, UnitTypeOK, SessionTypeOK, SupervisionTypeOK, childVars,
                      verifierVars
<1>1. UnitTypeOK'
  BY DEF StopRunning
<1>2. SessionTypeOK'
  BY DEF StopRunning, Terminate, PCs
<1>3. stop' \in BOOLEAN
  BY DEF StopRunning, Terminate
<1>4. child' \in {"none", "binding", "up", "gone"} /\ deaf' \in BOOLEAN
  BY DEF StopRunning, Terminate
<1>5. SupervisionTypeOK'
  BY <1>3, <1>4 DEF StopRunning
<1>6. stopAt' \in PCs /\ cut' \in BOOLEAN
  BY DEF StopRunning, Terminate
<1> QED
  BY <1>1, <1>2, <1>5, <1>6

\* Every step keeps the types; the steps of Next are taken one by one, as below.
LEMMA TypeStep ==
  LifecycleTypeOK /\ [Next]_vars => LifecycleTypeOK'
<1> SUFFICES ASSUME LifecycleTypeOK, [Next]_vars PROVE LifecycleTypeOK'
  OBVIOUS
<1> USE DEF vars, unitVars, deviceVars, sessionVars, signalVars, childVars, verifierVars, history,
            staleVars, Waits, Exit, SessionOnly, NoGrace, Deafened, Handled, PCs, ChildLives,
            LifecycleTypeOK, StaleTypeOK, UnitTypeOK, SessionTypeOK, SupervisionTypeOK
<1> USE Durations
<1>1. CASE LoadConfig
  BY <1>1 DEF LoadConfig
<1>2. CASE FindClient
  BY <1>2 DEF FindClient, LooksForClient
<1>3. CASE GiveUp
  BY <1>3 DEF GiveUp, LooksForClient
<1>4. CASE PortIsFree
  BY <1>4 DEF PortIsFree, PortHeld, Stale
<1>5. CASE ScanForStale
  BY <1>5 DEF ScanForStale, Scan, PortHeld, Stale
<1>6. CASE TerminateStale
  <2>1. StaleTypeOK'
    BY <1>6, StaleSteps DEF TerminateStale
  <2>2. SessionTypeOK'
    BY <1>6 DEF TerminateStale
  <2> QED
    BY <1>6, <2>1, <2>2 DEF TerminateStale
<1>7. CASE Drained
  BY <1>7 DEF Drained
<1>8. CASE Spawn
  BY <1>8 DEF Spawn
<1>9. CASE InstallHandlers
  BY <1>9 DEF InstallHandlers
<1>10. CASE ApplyRouting
  BY <1>10 DEF ApplyRouting, PortSettled, Listening, PortHeld, Stale
<1>11. CASE NothingDeclared
  BY <1>11 DEF NothingDeclared, PortSettled, Listening, PortHeld, Stale
<1>12. CASE BackendNeverCame
  BY <1>12 DEF BackendNeverCame, PortSettled, Listening, PortHeld, Stale
<1>13. CASE Applied
  BY <1>13 DEF Applied
<1>14. CASE ChildReaped
  BY <1>14 DEF ChildReaped
<1>15. CASE TakeReload
  <2>1. StaleTypeOK'
    BY <1>15 DEF TakeReload, Wakes
  <2>2. UnitTypeOK'
    BY <1>15 DEF TakeReload, Wakes
  <2>3. SessionTypeOK'
    BY <1>15 DEF TakeReload, Wakes
  <2>4. SupervisionTypeOK'
    BY <1>15 DEF TakeReload, Wakes
  <2>5. (plugged \in BOOLEAN /\ client \in BOOLEAN)'
    BY <1>15 DEF TakeReload, Wakes
  <2>6. (asked \in {"no", "start", "nothing"} /\ stopAt \in PCs /\ cut \in BOOLEAN)'
    BY <1>15 DEF TakeReload, Wakes
  <2> QED
    BY <2>1, <2>2, <2>3, <2>4, <2>5, <2>6
<1>16. CASE RereadEnds
  BY <1>16 DEF RereadEnds
<1>17. CASE RewriteEnds
  BY <1>17 DEF RewriteEnds
<1>18. CASE StaysUp
  BY <1>18 DEF StaysUp, ChecksStop, Wakes
<1>19. CASE KillBackend
  BY <1>19 DEF KillBackend, ChecksStop, Wakes
<1>20. CASE Joined
  BY <1>20 DEF Joined
<1>21. CASE ExitCode
  <2>1. StaleTypeOK'
    BY <1>21 DEF ExitCode
  <2>2. UnitTypeOK'
    BY <1>21 DEF ExitCode
  <2>3. SessionTypeOK'
    BY <1>21 DEF ExitCode
  <2>4. SupervisionTypeOK'
    BY <1>21 DEF ExitCode
  <2>5. (plugged \in BOOLEAN /\ client \in BOOLEAN)'
    BY <1>21 DEF ExitCode
  <2>6. (asked \in {"no", "start", "nothing"} /\ stopAt \in PCs /\ cut \in BOOLEAN)'
    BY <1>21 DEF ExitCode
  <2> QED
    BY <2>1, <2>2, <2>3, <2>4, <2>5, <2>6
<1>22. CASE VerifierRepairs
  BY <1>22 DEF VerifierRepairs, ShouldStop
<1>23. CASE VerifierRepaired
  BY <1>23 DEF VerifierRepaired
<1>24. CASE VerifierEnds
  BY <1>24 DEF VerifierEnds
<1>25. CASE Started
  BY <1>25 DEF Started
<1>26. CASE Ended
  <2>1. StaleTypeOK'
    BY <1>26 DEF Ended, Aftermath
  <2>2. UnitTypeOK'
    BY <1>26 DEF Ended, Aftermath
  <2>3. SessionTypeOK'
    BY <1>26 DEF Ended, Aftermath
  <2>4. SupervisionTypeOK'
    BY <1>26 DEF Ended, Aftermath
  <2>5. (plugged \in BOOLEAN /\ client \in BOOLEAN)'
    BY <1>26 DEF Ended, Aftermath
  <2>6. (asked \in {"no", "start", "nothing"} /\ stopAt \in PCs /\ cut \in BOOLEAN)'
    BY <1>26 DEF Ended, Aftermath
  <2> QED
    BY <2>1, <2>2, <2>3, <2>4, <2>5, <2>6
<1>27. CASE RestartDue
  BY <1>27, StartUnitTypes DEF RestartDue
<1>28. CASE KillUnit
  BY <1>28 DEF KillUnit
<1>29. CASE Plug
  <2>1. CASE Startable
    BY <1>29, <2>1, StartUnitTypes DEF Plug
  <2>2. CASE ~Startable
    BY <1>29, <2>2 DEF Plug
  <2> QED
    BY <2>1, <2>2
<1>30. CASE Unplug
  <2>1. CASE StopRunning
    BY <1>30, <2>1, StopTypes DEF Unplug
  <2>2. CASE UNCHANGED <<unitVars, sessionVars, signalVars, childVars, verifierVars, stopAt, cut>>
    <3>1. UnitTypeOK' /\ SessionTypeOK' /\ SupervisionTypeOK' /\ StaleTypeOK'
      BY <1>30, <2>2 DEF Unplug
    <3> QED
      BY <1>30, <2>2, <3>1 DEF Unplug
  <2> QED
    BY <1>30, <2>1, <2>2 DEF Unplug
<1>31. CASE ClientAppears
  BY <1>31 DEF ClientAppears
<1>32. CASE Stop
  <2>1. CASE unit = "restarting"
    BY <1>32, <2>1 DEF Stop
  <2>2. CASE unit # "restarting"
    BY <1>32, <2>2, StopTypes DEF Stop
  <2> QED
    BY <2>1, <2>2
<1>33. CASE EnsureBackend
  BY <1>33 DEF EnsureBackend, Startable
<1>34. CASE Reload
  BY <1>34 DEF Reload
<1>35. CASE BurstForgotten
  BY <1>35 DEF BurstForgotten
<1>36. CASE Bind
  BY <1>36 DEF Bind, PortHeld, Stale
<1>37. CASE BackendExits
  BY <1>37 DEF BackendExits
<1>38. CASE StaleChanges
  BY <1>38, StaleSteps DEF StaleChanges
<1>39. CASE Tick
  BY <1>39 DEF Tick, SessionDue, VerifierDue, UnitDue, CountDown, ShouldStop,
  LooksForClient, PortSettled, Listening, PortHeld, Stale
<1>40. CASE UNCHANGED vars
  BY <1>40
<1> QED
  BY <1>1, <1>2, <1>3, <1>4, <1>5, <1>6, <1>7, <1>8, <1>9, <1>10, <1>11, <1>12, <1>13, <1>14,
     <1>15, <1>16, <1>17, <1>18, <1>19, <1>20, <1>21, <1>22, <1>23, <1>24, <1>25, <1>26, <1>27,
     <1>28, <1>29, <1>30, <1>31, <1>32, <1>33, <1>34, <1>35, <1>36, <1>37, <1>38, <1>39, <1>40
  DEF Next, SessionNext, VerifierNext, UnitNext, WorldNext

-----------------------------------------------------------------------------
(* Where everything is.                                                    *)

\* Every step keeps the session, the unit and the child in step with each other.
LEMMA PlacesStep ==
  LifecycleTypeOK /\ Places /\ [Next]_vars => Places'
<1> SUFFICES ASSUME LifecycleTypeOK, Places, [Next]_vars PROVE Places'
  OBVIOUS
<1> USE DEF vars, unitVars, deviceVars, sessionVars, signalVars, childVars, verifierVars, history,
            staleVars, Waits, Exit, SessionOnly, NoGrace, Deafened, Handled, PCs, ChildLives,
            LifecycleTypeOK, UnitTypeOK, SessionTypeOK, SupervisionTypeOK, Places, Before, Late
<1> USE Durations
<1>1. CASE LoadConfig
  BY <1>1 DEF LoadConfig
<1>2. CASE FindClient
  BY <1>2 DEF FindClient, LooksForClient
<1>3. CASE GiveUp
  BY <1>3 DEF GiveUp, LooksForClient
<1>4. CASE PortIsFree
  BY <1>4 DEF PortIsFree, PortHeld, Stale
<1>5. CASE ScanForStale
  BY <1>5 DEF ScanForStale, Scan, PortHeld, Stale
<1>6. CASE TerminateStale
  BY <1>6 DEF TerminateStale, OpenPidfd, SendSigterm, NoFd, Current, Failed
<1>7. CASE Drained
  BY <1>7 DEF Drained
<1>8. CASE Spawn
  BY <1>8 DEF Spawn
<1>9. CASE InstallHandlers
  BY <1>9 DEF InstallHandlers
<1>10. CASE ApplyRouting
  BY <1>10 DEF ApplyRouting, PortSettled, Listening, PortHeld, Stale
<1>11. CASE NothingDeclared
  BY <1>11 DEF NothingDeclared, PortSettled, Listening, PortHeld, Stale
<1>12. CASE BackendNeverCame
  BY <1>12 DEF BackendNeverCame, PortSettled, Listening, PortHeld, Stale
<1>13. CASE Applied
  BY <1>13 DEF Applied
<1>14. CASE ChildReaped
  BY <1>14 DEF ChildReaped
<1>15. CASE TakeReload
  BY <1>15 DEF TakeReload, Wakes
<1>16. CASE RereadEnds
  BY <1>16 DEF RereadEnds
<1>17. CASE RewriteEnds
  BY <1>17 DEF RewriteEnds
<1>18. CASE StaysUp
  BY <1>18 DEF StaysUp, ChecksStop, Wakes
<1>19. CASE KillBackend
  BY <1>19 DEF KillBackend, ChecksStop, Wakes
<1>20. CASE Joined
  BY <1>20 DEF Joined
<1>21. CASE ExitCode
  BY <1>21 DEF ExitCode
<1>22. CASE VerifierRepairs
  BY <1>22 DEF VerifierRepairs, ShouldStop
<1>23. CASE VerifierRepaired
  BY <1>23 DEF VerifierRepaired
<1>24. CASE VerifierEnds
  BY <1>24 DEF VerifierEnds
<1>25. CASE Started
  BY <1>25 DEF Started
<1>26. CASE Ended
  BY <1>26 DEF Ended, Aftermath
<1>27. CASE RestartDue
  BY <1>27 DEF RestartDue, StartUnit, NoFd
<1>28. CASE KillUnit
  BY <1>28 DEF KillUnit
<1>29. CASE Plug
  BY <1>29 DEF Plug, Startable, StartUnit, NoFd
<1>30. CASE Unplug
  <2>1. CASE StopRunning
    BY <1>30, <2>1 DEF Unplug, StopRunning, Terminate
  <2>2. CASE UNCHANGED <<unitVars, sessionVars, signalVars, childVars, verifierVars, stopAt, cut>>
    BY <1>30, <2>2 DEF Unplug
  <2> QED
    BY <1>30, <2>1, <2>2 DEF Unplug
<1>31. CASE ClientAppears
  BY <1>31 DEF ClientAppears
<1>32. CASE Stop
  BY <1>32 DEF Stop, StopRunning, Terminate
<1>33. CASE EnsureBackend
  BY <1>33 DEF EnsureBackend, Startable
<1>34. CASE Reload
  BY <1>34 DEF Reload
<1>35. CASE BurstForgotten
  BY <1>35 DEF BurstForgotten
<1>36. CASE Bind
  BY <1>36 DEF Bind, PortHeld, Stale
<1>37. CASE BackendExits
  BY <1>37 DEF BackendExits
<1>38. CASE StaleChanges
  BY <1>38 DEF StaleChanges, Vanish, Reuse, Current
<1>39. CASE Tick
  BY <1>39 DEF Tick, SessionDue, VerifierDue, UnitDue, CountDown, ShouldStop,
  LooksForClient, PortSettled, Listening, PortHeld, Stale
<1>40. CASE UNCHANGED vars
  BY <1>40
<1> QED
  BY <1>1, <1>2, <1>3, <1>4, <1>5, <1>6, <1>7, <1>8, <1>9, <1>10, <1>11, <1>12, <1>13, <1>14,
     <1>15, <1>16, <1>17, <1>18, <1>19, <1>20, <1>21, <1>22, <1>23, <1>24, <1>25, <1>26, <1>27,
     <1>28, <1>29, <1>30, <1>31, <1>32, <1>33, <1>34, <1>35, <1>36, <1>37, <1>38, <1>39, <1>40
  DEF Next, SessionNext, VerifierNext, UnitNext, WorldNext

-----------------------------------------------------------------------------
(* The waits.                                                              *)

\* Every wait starts at its bound and only counts down.
LEMMA WaitingStep ==
  LifecycleTypeOK /\ Places /\ Waiting /\ [Next]_vars => Waiting'
<1> SUFFICES ASSUME LifecycleTypeOK, Places, Waiting, [Next]_vars PROVE Waiting'
  OBVIOUS
<1> USE DEF vars, unitVars, deviceVars, sessionVars, signalVars, childVars, verifierVars, history,
            staleVars, Waits, Exit, SessionOnly, NoGrace, Deafened, Handled, PCs, ChildLives,
            LifecycleTypeOK, UnitTypeOK, SessionTypeOK, SupervisionTypeOK, Waiting
<1> USE Durations
<1>1. CASE LoadConfig
  BY <1>1 DEF LoadConfig
<1>2. CASE FindClient
  BY <1>2 DEF FindClient, LooksForClient
<1>3. CASE GiveUp
  BY <1>3 DEF GiveUp, LooksForClient
<1>4. CASE PortIsFree
  BY <1>4 DEF PortIsFree, PortHeld, Stale
<1>5. CASE ScanForStale
  BY <1>5 DEF ScanForStale, Scan, PortHeld, Stale
<1>6. CASE TerminateStale
  BY <1>6 DEF TerminateStale, OpenPidfd, SendSigterm, NoFd, Current, Failed
<1>7. CASE Drained
  BY <1>7 DEF Drained
<1>8. CASE Spawn
  BY <1>8 DEF Spawn
<1>9. CASE InstallHandlers
  BY <1>9 DEF InstallHandlers
<1>10. CASE ApplyRouting
  BY <1>10 DEF ApplyRouting, PortSettled, Listening, PortHeld, Stale
<1>11. CASE NothingDeclared
  BY <1>11 DEF NothingDeclared, PortSettled, Listening, PortHeld, Stale
<1>12. CASE BackendNeverCame
  BY <1>12 DEF BackendNeverCame, PortSettled, Listening, PortHeld, Stale
<1>13. CASE Applied
  BY <1>13 DEF Applied
<1>14. CASE ChildReaped
  BY <1>14 DEF ChildReaped
<1>15. CASE TakeReload
  BY <1>15 DEF TakeReload, Wakes
<1>16. CASE RereadEnds
  BY <1>16 DEF RereadEnds
<1>17. CASE RewriteEnds
  BY <1>17 DEF RewriteEnds
<1>18. CASE StaysUp
  BY <1>18 DEF StaysUp, ChecksStop, Wakes
<1>19. CASE KillBackend
  BY <1>19 DEF KillBackend, ChecksStop, Wakes
<1>20. CASE Joined
  BY <1>20 DEF Joined
<1>21. CASE ExitCode
  BY <1>21 DEF ExitCode
<1>22. CASE VerifierRepairs
  BY <1>22 DEF VerifierRepairs, ShouldStop
<1>23. CASE VerifierRepaired
  BY <1>23 DEF VerifierRepaired
<1>24. CASE VerifierEnds
  BY <1>24 DEF VerifierEnds
<1>25. CASE Started
  BY <1>25 DEF Started
<1>26. CASE Ended
  BY <1>26 DEF Ended, Aftermath
<1>27. CASE RestartDue
  BY <1>27 DEF RestartDue, StartUnit, NoFd
<1>28. CASE KillUnit
  BY <1>28 DEF KillUnit
<1>29. CASE Plug
  BY <1>29 DEF Plug, Startable, StartUnit, NoFd
<1>30. CASE Unplug
  BY <1>30 DEF Unplug, StopRunning, Terminate
<1>31. CASE ClientAppears
  BY <1>31 DEF ClientAppears
<1>32. CASE Stop
  BY <1>32 DEF Stop, StopRunning, Terminate
<1>33. CASE EnsureBackend
  BY <1>33 DEF EnsureBackend, Startable
<1>34. CASE Reload
  BY <1>34 DEF Reload
<1>35. CASE BurstForgotten
  BY <1>35 DEF BurstForgotten
<1>36. CASE Bind
  BY <1>36 DEF Bind, PortHeld, Stale
<1>37. CASE BackendExits
  BY <1>37 DEF BackendExits
<1>38. CASE StaleChanges
  BY <1>38 DEF StaleChanges, Vanish, Reuse, Current
<1>39. CASE Tick
  BY <1>39 DEF Tick, SessionDue, VerifierDue, UnitDue, CountDown, ShouldStop,
  LooksForClient, PortSettled, Listening, PortHeld, Stale
<1>40. CASE UNCHANGED vars
  BY <1>40
<1> QED
  BY <1>1, <1>2, <1>3, <1>4, <1>5, <1>6, <1>7, <1>8, <1>9, <1>10, <1>11, <1>12, <1>13, <1>14,
     <1>15, <1>16, <1>17, <1>18, <1>19, <1>20, <1>21, <1>22, <1>23, <1>24, <1>25, <1>26, <1>27,
     <1>28, <1>29, <1>30, <1>31, <1>32, <1>33, <1>34, <1>35, <1>36, <1>37, <1>38, <1>39, <1>40
  DEF Next, SessionNext, VerifierNext, UnitNext, WorldNext

-----------------------------------------------------------------------------
(* The start, against TimeoutStartSec.                                      *)

\* What the start has used of TimeoutStartSec is at most the waits it has been through.
LEMMA StartStep ==
  LifecycleTypeOK /\ Places /\ Waiting /\ StartBound /\ [Next]_vars => StartBound'
<1> SUFFICES ASSUME LifecycleTypeOK, Places, Waiting, StartBound, [Next]_vars PROVE StartBound'
  OBVIOUS
<1> USE DEF vars, unitVars, deviceVars, sessionVars, signalVars, childVars, verifierVars, history,
            staleVars, Waits, Exit, SessionOnly, NoGrace, Deafened, Handled, PCs, ChildLives,
            LifecycleTypeOK, UnitTypeOK, SessionTypeOK, SupervisionTypeOK, Places, Waiting, Before,
            Late, StartBound, StartupBudget
<1> USE Durations
<1>1. CASE LoadConfig
  BY <1>1 DEF LoadConfig
<1>2. CASE FindClient
  BY <1>2 DEF FindClient, LooksForClient
<1>3. CASE GiveUp
  BY <1>3 DEF GiveUp, LooksForClient
<1>4. CASE PortIsFree
  BY <1>4 DEF PortIsFree, PortHeld, Stale
<1>5. CASE ScanForStale
  BY <1>5 DEF ScanForStale, Scan, PortHeld, Stale
<1>6. CASE TerminateStale
  BY <1>6 DEF TerminateStale, OpenPidfd, SendSigterm, NoFd, Current, Failed
<1>7. CASE Drained
  BY <1>7 DEF Drained
<1>8. CASE Spawn
  BY <1>8 DEF Spawn
<1>9. CASE InstallHandlers
  BY <1>9 DEF InstallHandlers
<1>10. CASE ApplyRouting
  BY <1>10 DEF ApplyRouting, PortSettled, Listening, PortHeld, Stale
<1>11. CASE NothingDeclared
  BY <1>11 DEF NothingDeclared, PortSettled, Listening, PortHeld, Stale
<1>12. CASE BackendNeverCame
  BY <1>12 DEF BackendNeverCame, PortSettled, Listening, PortHeld, Stale
<1>13. CASE Applied
  BY <1>13 DEF Applied
<1>14. CASE ChildReaped
  BY <1>14 DEF ChildReaped
<1>15. CASE TakeReload
  BY <1>15 DEF TakeReload, Wakes
<1>16. CASE RereadEnds
  BY <1>16 DEF RereadEnds
<1>17. CASE RewriteEnds
  BY <1>17 DEF RewriteEnds
<1>18. CASE StaysUp
  BY <1>18 DEF StaysUp, ChecksStop, Wakes
<1>19. CASE KillBackend
  BY <1>19 DEF KillBackend, ChecksStop, Wakes
<1>20. CASE Joined
  BY <1>20 DEF Joined
<1>21. CASE ExitCode
  BY <1>21 DEF ExitCode
<1>22. CASE VerifierRepairs
  BY <1>22 DEF VerifierRepairs, ShouldStop
<1>23. CASE VerifierRepaired
  BY <1>23 DEF VerifierRepaired
<1>24. CASE VerifierEnds
  BY <1>24 DEF VerifierEnds
<1>25. CASE Started
  BY <1>25 DEF Started
<1>26. CASE Ended
  BY <1>26 DEF Ended, Aftermath
<1>27. CASE RestartDue
  BY <1>27 DEF RestartDue, StartUnit, NoFd
<1>28. CASE KillUnit
  BY <1>28 DEF KillUnit
<1>29. CASE Plug
  BY <1>29 DEF Plug, Startable, StartUnit, NoFd
<1>30. CASE Unplug
  BY <1>30 DEF Unplug, StopRunning, Terminate
<1>31. CASE ClientAppears
  BY <1>31 DEF ClientAppears
<1>32. CASE Stop
  BY <1>32 DEF Stop, StopRunning, Terminate
<1>33. CASE EnsureBackend
  BY <1>33 DEF EnsureBackend, Startable
<1>34. CASE Reload
  BY <1>34 DEF Reload
<1>35. CASE BurstForgotten
  BY <1>35 DEF BurstForgotten
<1>36. CASE Bind
  BY <1>36 DEF Bind, PortHeld, Stale
<1>37. CASE BackendExits
  BY <1>37 DEF BackendExits
<1>38. CASE StaleChanges
  BY <1>38 DEF StaleChanges, Vanish, Reuse, Current
<1>39. CASE Tick
  BY <1>39 DEF Tick, SessionDue, VerifierDue, UnitDue, CountDown, ShouldStop,
  LooksForClient, PortSettled, Listening, PortHeld, Stale
<1>40. CASE UNCHANGED vars
  BY <1>40
<1> QED
  BY <1>1, <1>2, <1>3, <1>4, <1>5, <1>6, <1>7, <1>8, <1>9, <1>10, <1>11, <1>12, <1>13, <1>14,
     <1>15, <1>16, <1>17, <1>18, <1>19, <1>20, <1>21, <1>22, <1>23, <1>24, <1>25, <1>26, <1>27,
     <1>28, <1>29, <1>30, <1>31, <1>32, <1>33, <1>34, <1>35, <1>36, <1>37, <1>38, <1>39, <1>40
  DEF Next, SessionNext, VerifierNext, UnitNext, WorldNext

-----------------------------------------------------------------------------
(* The stop, against TimeoutStopSec.                                        *)

\* What a stop has used of TimeoutStopSec is at most the waits it has been through.
LEMMA StopStep ==
  LifecycleTypeOK /\ Places /\ Waiting /\ StopBound /\ [Next]_vars => StopBound'
<1> SUFFICES ASSUME LifecycleTypeOK, Places, Waiting, StopBound, [Next]_vars PROVE StopBound'
  OBVIOUS
<1> USE DEF vars, unitVars, deviceVars, sessionVars, signalVars, childVars, verifierVars, history,
            staleVars, Waits, Exit, SessionOnly, NoGrace, Deafened, Handled, PCs, ChildLives,
            LifecycleTypeOK, UnitTypeOK, SessionTypeOK, SupervisionTypeOK, Places, Waiting, Before,
            Late, StopBound, StopBudget
<1> USE Durations
<1>1. CASE LoadConfig
  BY <1>1 DEF LoadConfig
<1>2. CASE FindClient
  BY <1>2 DEF FindClient, LooksForClient
<1>3. CASE GiveUp
  BY <1>3 DEF GiveUp, LooksForClient
<1>4. CASE PortIsFree
  BY <1>4 DEF PortIsFree, PortHeld, Stale
<1>5. CASE ScanForStale
  BY <1>5 DEF ScanForStale, Scan, PortHeld, Stale
<1>6. CASE TerminateStale
  BY <1>6 DEF TerminateStale, OpenPidfd, SendSigterm, NoFd, Current, Failed
<1>7. CASE Drained
  BY <1>7 DEF Drained
<1>8. CASE Spawn
  BY <1>8 DEF Spawn
<1>9. CASE InstallHandlers
  BY <1>9 DEF InstallHandlers
<1>10. CASE ApplyRouting
  BY <1>10 DEF ApplyRouting, PortSettled, Listening, PortHeld, Stale
<1>11. CASE NothingDeclared
  BY <1>11 DEF NothingDeclared, PortSettled, Listening, PortHeld, Stale
<1>12. CASE BackendNeverCame
  BY <1>12 DEF BackendNeverCame, PortSettled, Listening, PortHeld, Stale
<1>13. CASE Applied
  BY <1>13 DEF Applied
<1>14. CASE ChildReaped
  BY <1>14 DEF ChildReaped
<1>15. CASE TakeReload
  BY <1>15 DEF TakeReload, Wakes
<1>16. CASE RereadEnds
  BY <1>16 DEF RereadEnds
<1>17. CASE RewriteEnds
  BY <1>17 DEF RewriteEnds
<1>18. CASE StaysUp
  BY <1>18 DEF StaysUp, ChecksStop, Wakes
<1>19. CASE KillBackend
  BY <1>19 DEF KillBackend, ChecksStop, Wakes
<1>20. CASE Joined
  BY <1>20 DEF Joined
<1>21. CASE ExitCode
  BY <1>21 DEF ExitCode
<1>22. CASE VerifierRepairs
  BY <1>22 DEF VerifierRepairs, ShouldStop
<1>23. CASE VerifierRepaired
  BY <1>23 DEF VerifierRepaired
<1>24. CASE VerifierEnds
  BY <1>24 DEF VerifierEnds
<1>25. CASE Started
  BY <1>25 DEF Started
<1>26. CASE Ended
  BY <1>26 DEF Ended, Aftermath
<1>27. CASE RestartDue
  BY <1>27 DEF RestartDue, StartUnit, NoFd
<1>28. CASE KillUnit
  BY <1>28 DEF KillUnit
<1>29. CASE Plug
  BY <1>29 DEF Plug, Startable, StartUnit, NoFd
<1>30. CASE Unplug
  BY <1>30 DEF Unplug, StopRunning, Terminate
<1>31. CASE ClientAppears
  BY <1>31 DEF ClientAppears
<1>32. CASE Stop
  BY <1>32 DEF Stop, StopRunning, Terminate
<1>33. CASE EnsureBackend
  BY <1>33 DEF EnsureBackend, Startable
<1>34. CASE Reload
  BY <1>34 DEF Reload
<1>35. CASE BurstForgotten
  BY <1>35 DEF BurstForgotten
<1>36. CASE Bind
  BY <1>36 DEF Bind, PortHeld, Stale
<1>37. CASE BackendExits
  BY <1>37 DEF BackendExits
<1>38. CASE StaleChanges
  BY <1>38 DEF StaleChanges, Vanish, Reuse, Current
<1>39. CASE Tick
  BY <1>39 DEF Tick, SessionDue, VerifierDue, UnitDue, CountDown, ShouldStop,
  LooksForClient, PortSettled, Listening, PortHeld, Stale
<1>40. CASE UNCHANGED vars
  BY <1>40
<1> QED
  BY <1>1, <1>2, <1>3, <1>4, <1>5, <1>6, <1>7, <1>8, <1>9, <1>10, <1>11, <1>12, <1>13, <1>14,
     <1>15, <1>16, <1>17, <1>18, <1>19, <1>20, <1>21, <1>22, <1>23, <1>24, <1>25, <1>26, <1>27,
     <1>28, <1>29, <1>30, <1>31, <1>32, <1>33, <1>34, <1>35, <1>36, <1>37, <1>38, <1>39, <1>40
  DEF Next, SessionNext, VerifierNext, UnitNext, WorldNext

-----------------------------------------------------------------------------
(* The session and its verifier.                                           *)

\* The barrier of the verifier began before the grace of the join did.
LEMMA JoinStep ==
  LifecycleTypeOK /\ Places /\ Waiting /\ JoinBound /\ [Next]_vars => JoinBound'
<1> SUFFICES ASSUME LifecycleTypeOK, Places, Waiting, JoinBound, [Next]_vars PROVE JoinBound'
  OBVIOUS
<1> USE DEF vars, unitVars, deviceVars, sessionVars, signalVars, childVars, verifierVars, history,
            staleVars, Waits, Exit, SessionOnly, NoGrace, Deafened, Handled, PCs, ChildLives,
            LifecycleTypeOK, UnitTypeOK, SessionTypeOK, SupervisionTypeOK, Places, Waiting, Before,
            Late, JoinBound, VerifierEndsFirst
<1> USE Durations, Budgets
<1>1. CASE LoadConfig
  BY <1>1 DEF LoadConfig
<1>2. CASE FindClient
  BY <1>2 DEF FindClient, LooksForClient
<1>3. CASE GiveUp
  BY <1>3 DEF GiveUp, LooksForClient
<1>4. CASE PortIsFree
  BY <1>4 DEF PortIsFree, PortHeld, Stale
<1>5. CASE ScanForStale
  BY <1>5 DEF ScanForStale, Scan, PortHeld, Stale
<1>6. CASE TerminateStale
  BY <1>6 DEF TerminateStale, OpenPidfd, SendSigterm, NoFd, Current, Failed
<1>7. CASE Drained
  BY <1>7 DEF Drained
<1>8. CASE Spawn
  BY <1>8 DEF Spawn
<1>9. CASE InstallHandlers
  BY <1>9 DEF InstallHandlers
<1>10. CASE ApplyRouting
  BY <1>10 DEF ApplyRouting, PortSettled, Listening, PortHeld, Stale
<1>11. CASE NothingDeclared
  BY <1>11 DEF NothingDeclared, PortSettled, Listening, PortHeld, Stale
<1>12. CASE BackendNeverCame
  BY <1>12 DEF BackendNeverCame, PortSettled, Listening, PortHeld, Stale
<1>13. CASE Applied
  BY <1>13 DEF Applied
<1>14. CASE ChildReaped
  BY <1>14 DEF ChildReaped
<1>15. CASE TakeReload
  BY <1>15 DEF TakeReload, Wakes
<1>16. CASE RereadEnds
  BY <1>16 DEF RereadEnds
<1>17. CASE RewriteEnds
  BY <1>17 DEF RewriteEnds
<1>18. CASE StaysUp
  BY <1>18 DEF StaysUp, ChecksStop, Wakes
<1>19. CASE KillBackend
  BY <1>19 DEF KillBackend, ChecksStop, Wakes
<1>20. CASE Joined
  BY <1>20 DEF Joined
<1>21. CASE ExitCode
  BY <1>21 DEF ExitCode
<1>22. CASE VerifierRepairs
  BY <1>22 DEF VerifierRepairs, ShouldStop
<1>23. CASE VerifierRepaired
  BY <1>23 DEF VerifierRepaired
<1>24. CASE VerifierEnds
  BY <1>24 DEF VerifierEnds
<1>25. CASE Started
  BY <1>25 DEF Started
<1>26. CASE Ended
  BY <1>26 DEF Ended, Aftermath
<1>27. CASE RestartDue
  BY <1>27 DEF RestartDue, StartUnit, NoFd
<1>28. CASE KillUnit
  BY <1>28 DEF KillUnit
<1>29. CASE Plug
  BY <1>29 DEF Plug, Startable, StartUnit, NoFd
<1>30. CASE Unplug
  BY <1>30 DEF Unplug, StopRunning, Terminate
<1>31. CASE ClientAppears
  BY <1>31 DEF ClientAppears
<1>32. CASE Stop
  BY <1>32 DEF Stop, StopRunning, Terminate
<1>33. CASE EnsureBackend
  BY <1>33 DEF EnsureBackend, Startable
<1>34. CASE Reload
  BY <1>34 DEF Reload
<1>35. CASE BurstForgotten
  BY <1>35 DEF BurstForgotten
<1>36. CASE Bind
  BY <1>36 DEF Bind, PortHeld, Stale
<1>37. CASE BackendExits
  BY <1>37 DEF BackendExits
<1>38. CASE StaleChanges
  BY <1>38 DEF StaleChanges, Vanish, Reuse, Current
<1>39. CASE Tick
  BY <1>39 DEF Tick, SessionDue, VerifierDue, UnitDue, CountDown, ShouldStop,
  LooksForClient, PortSettled, Listening, PortHeld, Stale
<1>40. CASE UNCHANGED vars
  BY <1>40
<1> QED
  BY <1>1, <1>2, <1>3, <1>4, <1>5, <1>6, <1>7, <1>8, <1>9, <1>10, <1>11, <1>12, <1>13, <1>14,
     <1>15, <1>16, <1>17, <1>18, <1>19, <1>20, <1>21, <1>22, <1>23, <1>24, <1>25, <1>26, <1>27,
     <1>28, <1>29, <1>30, <1>31, <1>32, <1>33, <1>34, <1>35, <1>36, <1>37, <1>38, <1>39, <1>40
  DEF Next, SessionNext, VerifierNext, UnitNext, WorldNext

-----------------------------------------------------------------------------
(* The cleanup and the strangers.                                          *)

\* The strangers concern no other step.
LEMMA StrangersStay ==
  ASSUME Strangers, UNCHANGED staleVars
  PROVE  Strangers'
<1>1. proc' = proc /\ todo' = todo /\ fd' = fd /\ late' = late /\ struck' = struck
  BY DEF staleVars
<1>2. Current' = Current
  BY <1>1 DEF Current
<1> QED
  BY <1>1, <1>2 DEF Strangers, StrangerOnlyIfLate

\* A start begins with nothing found in /proc.
LEMMA NoStrangersAtStart ==
  ASSUME StartUnit, Strangers
  PROVE  Strangers'
<1>1. CASE starts < StartBurst
  <2>1. todo' = {} /\ fd' = NoFd /\ struck' = FALSE
    BY <1>1 DEF StartUnit
  <2> QED
    BY <2>1 DEF Strangers, StrangerOnlyIfLate, NoFd
<1>2. CASE ~(starts < StartBurst)
  BY <1>2, StrangersStay DEF StartUnit
<1> QED
  BY <1>1, <1>2

\* What the cleanup and the leftovers do to each other.
LEMMA StrangerSteps ==
  ASSUME LifecycleTypeOK, Strangers,
         (Scan /\ todo = {}) \/ OpenPidfd \/ SendSigterm \/ (\E p \in Pid : Vanish(p) \/ Reuse(p))
  PROVE  Strangers'
<1> USE DEF LifecycleTypeOK, StaleTypeOK, Strangers, StrangerOnlyIfLate, NoFd, Failed
<1>1. CASE Scan /\ todo = {}
  BY <1>1 DEF Scan, Stale
<1>2. CASE OpenPidfd
  <2>1. Current \in todo /\ Current' = Current
    BY <1>2 DEF OpenPidfd, Current
  <2> QED
    BY <1>2, <2>1 DEF OpenPidfd
<1>3. CASE SendSigterm
  <2>1. CASE fd.got = "pidfd"
    BY <1>3, <2>1 DEF SendSigterm
  <2>2. CASE fd.got # "pidfd"
    <3>1. todo # {} => Current \in todo
      BY DEF Current
    <3>2. fd # [got |-> "pidfd", of |-> "none"]
      BY <2>2
    <3> QED
      BY <1>3, <2>2, <3>1, <3>2 DEF SendSigterm
  <2> QED
    BY <2>1, <2>2
<1>4. ASSUME NEW q \in Pid, Vanish(q) PROVE Strangers'
  <2>1. Current' = Current
    BY <1>4 DEF Vanish, Current
  <2> QED
    BY <1>4, <2>1 DEF Vanish
<1>5. ASSUME NEW q \in Pid, Reuse(q) PROVE Strangers'
  <2>1. Current' = Current
    BY <1>5 DEF Reuse, Current
  <2>2. q = Current /\ fd.got = "pidfd" => fd = [got |-> "pidfd", of |-> "none"]
    BY <1>5 DEF Reuse
  <2>3. Current \in todo /\ \A p \in Pid \ {q} : proc'[p] = proc[p]
    BY <1>5 DEF Reuse, Current
  <2> QED
    BY <1>5, <2>1, <2>2, <2>3 DEF Reuse
<1> QED
  BY <1>1, <1>2, <1>3, <1>4, <1>5

\* Only the cleanup and the leftovers themselves touch the numbers.
LEMMA StrangerStep ==
  LifecycleTypeOK /\ Strangers /\ [Next]_vars => Strangers'
<1> SUFFICES ASSUME LifecycleTypeOK, Strangers, [Next]_vars PROVE Strangers'
  OBVIOUS
<1> USE DEF vars, SessionOnly
<1>1. CASE LoadConfig
  BY <1>1, StrangersStay DEF LoadConfig
<1>2. CASE FindClient
  BY <1>2, StrangersStay DEF FindClient
<1>3. CASE GiveUp
  BY <1>3, StrangersStay DEF GiveUp
<1>4. CASE PortIsFree
  BY <1>4, StrangersStay DEF PortIsFree
<1>5. CASE ScanForStale
  BY <1>5, StrangerSteps, StrangersStay DEF ScanForStale
<1>6. CASE TerminateStale
  BY <1>6, StrangerSteps, StrangersStay DEF TerminateStale
<1>7. CASE Drained
  BY <1>7, StrangersStay DEF Drained
<1>8. CASE Spawn
  BY <1>8, StrangersStay DEF Spawn
<1>9. CASE InstallHandlers
  BY <1>9, StrangersStay DEF InstallHandlers
<1>10. CASE ApplyRouting
  BY <1>10, StrangersStay DEF ApplyRouting
<1>11. CASE NothingDeclared
  BY <1>11, StrangersStay DEF NothingDeclared
<1>12. CASE BackendNeverCame
  BY <1>12, StrangersStay DEF BackendNeverCame
<1>13. CASE Applied
  BY <1>13, StrangersStay DEF Applied
<1>14. CASE ChildReaped
  BY <1>14, StrangersStay DEF ChildReaped
<1>15. CASE TakeReload
  BY <1>15, StrangersStay DEF TakeReload
<1>16. CASE RereadEnds
  BY <1>16, StrangersStay DEF RereadEnds
<1>17. CASE RewriteEnds
  BY <1>17, StrangersStay DEF RewriteEnds
<1>18. CASE StaysUp
  BY <1>18, StrangersStay DEF StaysUp
<1>19. CASE KillBackend
  BY <1>19, StrangersStay DEF KillBackend
<1>20. CASE Joined
  BY <1>20, StrangersStay DEF Joined
<1>21. CASE ExitCode
  BY <1>21, StrangersStay DEF ExitCode
<1>22. CASE VerifierRepairs
  BY <1>22, StrangersStay DEF VerifierRepairs
<1>23. CASE VerifierRepaired
  BY <1>23, StrangersStay DEF VerifierRepaired
<1>24. CASE VerifierEnds
  BY <1>24, StrangersStay DEF VerifierEnds
<1>25. CASE Started
  BY <1>25, StrangersStay DEF Started
<1>26. CASE Ended
  BY <1>26, StrangersStay DEF Ended
<1>27. CASE RestartDue
  BY <1>27, NoStrangersAtStart DEF RestartDue
<1>28. CASE KillUnit
  BY <1>28, StrangersStay DEF KillUnit
<1>29. CASE Plug
  BY <1>29, StrangersStay, NoStrangersAtStart DEF Plug
<1>30. CASE Unplug
  BY <1>30, StrangersStay DEF Unplug
<1>31. CASE ClientAppears
  BY <1>31, StrangersStay DEF ClientAppears
<1>32. CASE Stop
  BY <1>32, StrangersStay DEF Stop
<1>33. CASE EnsureBackend
  BY <1>33, StrangersStay DEF EnsureBackend, Startable
<1>34. CASE Reload
  BY <1>34, StrangersStay DEF Reload
<1>35. CASE BurstForgotten
  BY <1>35, StrangersStay DEF BurstForgotten
<1>36. CASE Bind
  BY <1>36, StrangersStay DEF Bind
<1>37. CASE BackendExits
  BY <1>37, StrangersStay DEF BackendExits
<1>38. CASE StaleChanges
  BY <1>38, StrangerSteps, StrangersStay DEF StaleChanges
<1>39. CASE Tick
  BY <1>39, StrangersStay DEF Tick
<1>40. CASE UNCHANGED vars
  BY <1>40, StrangersStay
<1> QED
  BY <1>1, <1>2, <1>3, <1>4, <1>5, <1>6, <1>7, <1>8, <1>9, <1>10, <1>11, <1>12, <1>13, <1>14,
     <1>15, <1>16, <1>17, <1>18, <1>19, <1>20, <1>21, <1>22, <1>23, <1>24, <1>25, <1>26, <1>27,
     <1>28, <1>29, <1>30, <1>31, <1>32, <1>33, <1>34, <1>35, <1>36, <1>37, <1>38, <1>39, <1>40
  DEF Next, SessionNext, VerifierNext, UnitNext, WorldNext

-----------------------------------------------------------------------------
(* What follows from where everything is, for the exits.                   *)

\* The three facts about the ends of unit and session, from the parts above.
LEMMA ExitStep ==
  LifecycleTypeOK /\ Places /\ StopBound /\ StopFits /\ CleanExitIsReady /\ ReloadNeverKills /\ [Next]_vars => (StopFits /\ CleanExitIsReady /\ ReloadNeverKills)'
<1> SUFFICES ASSUME LifecycleTypeOK, Places, StopBound, StopFits, CleanExitIsReady, ReloadNeverKills, [Next]_vars PROVE (StopFits /\ CleanExitIsReady /\ ReloadNeverKills)'
  OBVIOUS
<1> USE DEF vars, unitVars, deviceVars, sessionVars, signalVars, childVars, verifierVars, history,
            staleVars, Waits, Exit, SessionOnly, NoGrace, Deafened, Handled, PCs, ChildLives,
            LifecycleTypeOK, UnitTypeOK, SessionTypeOK, SupervisionTypeOK, Places, Before, Late,
            StopBound, StopBudget, StopFits, CleanExitIsReady, ReloadNeverKills
<1> USE Durations, Budgets
<1>1. CASE LoadConfig
  BY <1>1 DEF LoadConfig
<1>2. CASE FindClient
  BY <1>2 DEF FindClient, LooksForClient
<1>3. CASE GiveUp
  BY <1>3 DEF GiveUp, LooksForClient
<1>4. CASE PortIsFree
  BY <1>4 DEF PortIsFree, PortHeld, Stale
<1>5. CASE ScanForStale
  BY <1>5 DEF ScanForStale, Scan, PortHeld, Stale
<1>6. CASE TerminateStale
  BY <1>6 DEF TerminateStale, OpenPidfd, SendSigterm, NoFd, Current, Failed
<1>7. CASE Drained
  BY <1>7 DEF Drained
<1>8. CASE Spawn
  BY <1>8 DEF Spawn
<1>9. CASE InstallHandlers
  BY <1>9 DEF InstallHandlers
<1>10. CASE ApplyRouting
  BY <1>10 DEF ApplyRouting, PortSettled, Listening, PortHeld, Stale
<1>11. CASE NothingDeclared
  BY <1>11 DEF NothingDeclared, PortSettled, Listening, PortHeld, Stale
<1>12. CASE BackendNeverCame
  BY <1>12 DEF BackendNeverCame, PortSettled, Listening, PortHeld, Stale
<1>13. CASE Applied
  BY <1>13 DEF Applied
<1>14. CASE ChildReaped
  BY <1>14 DEF ChildReaped
<1>15. CASE TakeReload
  BY <1>15 DEF TakeReload, Wakes
<1>16. CASE RereadEnds
  BY <1>16 DEF RereadEnds
<1>17. CASE RewriteEnds
  BY <1>17 DEF RewriteEnds
<1>18. CASE StaysUp
  BY <1>18 DEF StaysUp, ChecksStop, Wakes
<1>19. CASE KillBackend
  BY <1>19 DEF KillBackend, ChecksStop, Wakes
<1>20. CASE Joined
  BY <1>20 DEF Joined
<1>21. CASE ExitCode
  BY <1>21 DEF ExitCode
<1>22. CASE VerifierRepairs
  BY <1>22 DEF VerifierRepairs, ShouldStop
<1>23. CASE VerifierRepaired
  BY <1>23 DEF VerifierRepaired
<1>24. CASE VerifierEnds
  BY <1>24 DEF VerifierEnds
<1>25. CASE Started
  BY <1>25 DEF Started
<1>26. CASE Ended
  BY <1>26 DEF Ended, Aftermath
<1>27. CASE RestartDue
  BY <1>27 DEF RestartDue, StartUnit, NoFd
<1>28. CASE KillUnit
  BY <1>28 DEF KillUnit
<1>29. CASE Plug
  BY <1>29 DEF Plug, Startable, StartUnit, NoFd
<1>30. CASE Unplug
  <2>1. CASE StopRunning /\ pc \in Deafened
    BY <1>30, <2>1 DEF Unplug, StopRunning, Terminate
  <2>2. CASE StopRunning /\ pc \notin Deafened
    BY <1>30, <2>2 DEF Unplug, StopRunning, Terminate
  <2>3. CASE UNCHANGED <<unitVars, sessionVars, signalVars, childVars, verifierVars, stopAt, cut>>
    BY <1>30, <2>3 DEF Unplug
  <2> QED
    BY <1>30, <2>1, <2>2, <2>3 DEF Unplug
<1>31. CASE ClientAppears
  BY <1>31 DEF ClientAppears
<1>32. CASE Stop
  <2>1. CASE unit = "restarting"
    BY <1>32, <2>1 DEF Stop
  <2>2. CASE unit # "restarting" /\ pc \in Deafened
    BY <1>32, <2>2 DEF Stop, StopRunning, Terminate
  <2>3. CASE unit # "restarting" /\ pc \notin Deafened
    BY <1>32, <2>3 DEF Stop, StopRunning, Terminate
  <2> QED
    BY <2>1, <2>2, <2>3
<1>33. CASE EnsureBackend
  BY <1>33 DEF EnsureBackend, Startable
<1>34. CASE Reload
  BY <1>34 DEF Reload
<1>35. CASE BurstForgotten
  BY <1>35 DEF BurstForgotten
<1>36. CASE Bind
  BY <1>36 DEF Bind, PortHeld, Stale
<1>37. CASE BackendExits
  BY <1>37 DEF BackendExits
<1>38. CASE StaleChanges
  BY <1>38 DEF StaleChanges, Vanish, Reuse, Current
<1>39. CASE Tick
  BY <1>39 DEF Tick, SessionDue, VerifierDue, UnitDue, CountDown, ShouldStop,
  LooksForClient, PortSettled, Listening, PortHeld, Stale
<1>40. CASE UNCHANGED vars
  BY <1>40
<1> QED
  BY <1>1, <1>2, <1>3, <1>4, <1>5, <1>6, <1>7, <1>8, <1>9, <1>10, <1>11, <1>12, <1>13, <1>14,
     <1>15, <1>16, <1>17, <1>18, <1>19, <1>20, <1>21, <1>22, <1>23, <1>24, <1>25, <1>26, <1>27,
     <1>28, <1>29, <1>30, <1>31, <1>32, <1>33, <1>34, <1>35, <1>36, <1>37, <1>38, <1>39, <1>40
  DEF Next, SessionNext, VerifierNext, UnitNext, WorldNext

-----------------------------------------------------------------------------
(* The theorems.                                                           *)

\* Nothing runs at first.
LEMMA Initially == Init => IInv
<1> SUFFICES ASSUME Init PROVE IInv
  OBVIOUS
<1> USE Durations DEF Init, StaleInit, NoFd, NoGrace, ChildLives, Deafened, Handled, PCs
<1>1. LifecycleTypeOK
  <2>1. StaleTypeOK
    BY DEF StaleTypeOK
  <2>2. UnitTypeOK
    <3>1. starts \in 0..StartBurst /\ clock \in Nat
      BY StartBurst \in Nat
    <3>2. queued \in BOOLEAN
      BY Zenon
    <3> QED
      BY <3>1, <3>2 DEF UnitTypeOK
  <2>3. SessionTypeOK
    BY DEF SessionTypeOK
  <2>4. SupervisionTypeOK
    BY DEF SupervisionTypeOK
  <2>5. asked \in {"no", "start", "nothing"} /\ stopAt \in PCs
    OBVIOUS
  <2>6. plugged \in BOOLEAN /\ client \in BOOLEAN /\ cut \in BOOLEAN
    BY Zenon
  <2> QED
    BY <2>1, <2>2, <2>3, <2>4, <2>5, <2>6, Zenon DEF LifecycleTypeOK
<1>2. Places
  BY DEF Places, Before, Late
<1>3. Waiting /\ StartBound /\ StopBound /\ JoinBound
  BY DEF Waiting, StartBound, StopBound, JoinBound, VerifierEndsFirst
<1>4. Strangers
  BY DEF Strangers, StrangerOnlyIfLate
<1>5. StopFits /\ CleanExitIsReady /\ ReloadNeverKills
  BY DEF StopFits, CleanExitIsReady, ReloadNeverKills
<1> QED
  BY <1>1, <1>2, <1>3, <1>4, <1>5 DEF IInv

\* The parts are inductive together.
LEMMA Inductive == IInv /\ [Next]_vars => IInv'
  BY TypeStep, PlacesStep, WaitingStep, StartStep, StopStep, JoinStep, StrangerStep, ExitStep
  DEF IInv

\* The inductive invariant holds of every behaviour.
THEOREM Invariance == Spec => []IInv
<1> QED
  BY Initially, Inductive, PTL DEF Spec

\* Every timer stays a natural number and every variable in its range.
THEOREM LifecycleTyped == Spec => []LifecycleTypeOK
<1>1. IInv => LifecycleTypeOK
  BY DEF IInv
<1> QED
  BY <1>1, Invariance, PTL

\* As long as startup_budget is below TimeoutStartSec, whatever the two are,
\* systemd never kills a start in the middle of its apply.
THEOREM StartIsNeverKilled == Spec => []StartFits
<1>1. IInv => StartFits
  BY Durations, Budgets
  DEF IInv, StartBound, StartFits, LifecycleTypeOK, UnitTypeOK, StartupBudget
<1> QED
  BY <1>1, Invariance, PTL

\* As long as barrier, poll, kill escalation and verifier grace add up to less
\* than TimeoutStopSec, a stop past the port wait ends without SIGKILL.
THEOREM StopIsNotCut == Spec => []StopFits
<1>1. IInv => StopFits
  BY DEF IInv
<1> QED
  BY <1>1, Invariance, PTL

\* The session is not gone while its verifier is inside an apply.
THEOREM VerifierIsNotCut == Spec => []VerifierEndsFirst
<1>1. IInv => VerifierEndsFirst
  BY DEF IInv, JoinBound
<1> QED
  BY <1>1, Invariance, PTL

\* Exit code 0 implies that READY=1 was sent.
THEOREM CleanExitsAnnounced == Spec => []CleanExitIsReady
<1>1. IInv => CleanExitIsReady
  BY DEF IInv
<1> QED
  BY <1>1, Invariance, PTL

\* No SIGHUP reaches a session that has no handler for it.
THEOREM ReloadIsSafe == Spec => []ReloadNeverKills
<1>1. IInv => ReloadNeverKills
  BY DEF IInv
<1> QED
  BY <1>1, Invariance, PTL

\* A pidfd, once open, keeps the cleanup from signalling a stranger.
THEOREM PidfdWinsTheRace == Spec => []StrangerOnlyIfLate
<1>1. IInv => StrangerOnlyIfLate
  BY DEF IInv, Strangers
<1> QED
  BY <1>1, Invariance, PTL
=============================================================================
