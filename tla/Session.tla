------------------------------- MODULE Session -------------------------------
(***************************************************************************)
(* The oscmix session: the main thread that waits for the backend, applies *)
(* the routing, signals READY and supervises (session.py, process.py), and *)
(* the verifier thread that reads the device back and repairs it           *)
(* (verify.py).  Both run the same two procedures: an apply, links then    *)
(* barrier then mix (routing.py), and an observation window on the receive *)
(* port (verify.py).  One datagram sent or heard is one step, so that      *)
(* signals, the mixer GUI, the device and the other thread interleave      *)
(* between any two of them.                                                *)
(***************************************************************************)
EXTENDS Desk

CONSTANTS
  Startups, \* the configurations a session may start with
  Broken,   \* a routing.conf that does not parse
  Edits,    \* what routing.conf may hold later: configurations, or Broken
  Late,     \* registers whose report may miss the window that waits for it
  Garbled,  \* a datagram nobody can decode may arrive at the barrier
  Prompt,   \* the backend binds, and a thread notices a stop, within its deadline
  MaxHups   \* how many SIGHUPs a behaviour may hold

Configs == Startups \union (Edits \ {Broken})

\* The last reconcile that wrote: with which configuration, whether its apply
\* is complete, and whether the verifier was idle when it began.
Applied(config, done, alone) == [config |-> config, done |-> done, alone |-> alone]

VARIABLES
  pc, cfg,               \* per thread: where it is, the config it works with
  todo, skip, pending,   \* per thread: burst left, leave_alone, links awaited
  confirmed, mismatched, \* per thread: what its observation window has seen
  attempt, pendingLinks, reapplied, verdict,   \* of the verifier
  stop, reload, killing, ready, file,          \* signals and supervision
  hups, moved, unread,   \* history: SIGHUPs, changes since a read, unread ones
  applied                \* history: the last reconcile that wrote

threadVars == <<pc, cfg, todo, skip, pending, confirmed, mismatched>>
verifyVars == <<attempt, pendingLinks, reapplied, verdict>>
signalVars == <<stop, reload, killing, ready, file>>
history    == <<hups, moved, unread, applied>>
vars == <<deskVars, threadVars, verifyVars, signalVars, history>>

Writing   == {"links", "mix", "remix", "rewrite", "blindmix"}
Listening == {"echo", "refresh", "top", "recv"}
PCs == Writing \union Listening \union
       {"none", "boot", "supervise", "poll", "reload", "join", "exit",
        "stopcheck", "settle", "settling", "listen", "judge", "report", "blind",
        "done", "cut"}

\* What each configuration asks for.
LinksOf     == [c \in Configs |-> PlannedLinks(c)]
MixesOf     == [c \in Configs |-> PlannedMixes(c)]
RemixOf     == [c \in Configs |-> SendMixMessages(c)]
AwaitedOf   == [c \in Configs |-> OutputLinkState(c)]
WantedOf    == [c \in Configs |-> ExpectedRegisters(c)]
RegistersOf == [c \in Configs |-> {m.reg : m \in ExpectedRegisters(c)}]

\* What may go on the wire: the level of a mix message is a value too.
Sendable == {m \in Report : <<m.args[1]>> \in Values}

\* A configuration is about the registers modelled: what its routes link and
\* mix, and what its sections set, may be sent.
ASSUME ConfigsAreModelled ==
  \A c \in Configs :
    /\ c.routes \in Seq(ToSet(c.routes))
    /\ \A route \in ToSet(c.routes) :
         /\ LinkMessages(route) \in Seq(Sendable)
         /\ MixMessages(route) \in Seq(Sendable)
    /\ c.channels \in Seq(Sendable)

ASSUME SessionConstants ==
  /\ Broken \notin Configs
  /\ Late \subseteq Reg /\ Prompt \in BOOLEAN /\ Garbled \in BOOLEAN /\ MaxHups \in Nat

Init ==
  /\ DeskInit
  /\ pc = [t \in Thread |-> IF t = "main" THEN "boot" ELSE "none"]
  /\ \E config \in Startups : cfg = [t \in Thread |-> config]
  /\ todo = [t \in Thread |-> <<>>]
  /\ skip = [t \in Thread |-> {}]
  /\ pending = [t \in Thread |-> {}]
  /\ confirmed = [t \in Thread |-> {}]
  /\ mismatched = [t \in Thread |-> {}]
  /\ attempt = 1 /\ pendingLinks = {} /\ reapplied = FALSE /\ verdict = "none"
  /\ stop = FALSE /\ reload = FALSE /\ killing = FALSE /\ ready = FALSE
  /\ file = cfg["main"]
  /\ hups = 0 /\ moved = [t \in Thread |-> {}] /\ unread = FALSE
  /\ applied = Applied(file, FALSE, FALSE)

----------------------------------------------------------------------------
(* Helpers.                                                                *)

\* The verifier counts a dead backend as a stop, the reload does not.
ShouldStop(t) == stop \/ (t = "verify" /\ child = "dead")

Goto(t, label) == pc' = [pc EXCEPT ![t] = label]

Burst(t, label, msgs) == Goto(t, label) /\ todo' = [todo EXCEPT ![t] = msgs]

Bind(t, label) ==
  /\ port = "free"
  /\ port' = t /\ inbox' = <<>>
  /\ Goto(t, label)

\* The socket closes and what it had not read is gone.
Close == port' = "free" /\ inbox' = <<>>

\* A deadline set for these registers passes only once none of their
\* reports, the late ones apart, is still under way.
DeadlineFor(regs) ==
  \A r \in regs \ Late :
    /\ r \notin ToSet(dump)
    /\ \A m \in ToSet(wire \o inbox) : m.reg # r

\* The barrier takes a datagram that decodes to no message for its timeout.
BarrierOver == Garbled \/ DeadlineFor(LinkRegs)

Registers(t) == RegistersOf[cfg[t]]

Problems(t) == Unconfirmed(cfg[t], Registers(t), confirmed[t], mismatched[t])

KeptNothing(t) == {}   \* bug: leave_alone is never passed on
Kept(t) == KeptByTheDevice(cfg[t], mismatched[t])

\* history: everybody but t has not read the registers that just changed
\* (of those a read can tell anything about).
MovedBy(t) ==
  moved' = [u \in Thread |->
              IF u = t THEN moved[u]
              ELSE moved[u] \union {r \in Reg : RegisterEverReported(r) /\ dev'[r] # dev[r]}]

----------------------------------------------------------------------------
(* An apply: apply_routing, await_link_echo, _cross_the_barrier, and the   *)
(* bursts of send_mix.                                                     *)

StartApply(t, leaveAlone) ==
  /\ skip' = [skip EXCEPT ![t] = leaveAlone]
  /\ Burst(t, "links", Without(LinksOf[cfg[t]], leaveAlone))

\* The next datagram of a burst.
SendNext(t) ==
  /\ pc[t] \in Writing /\ todo[t] # <<>>
  /\ PutRegister(Head(todo[t]))
  /\ todo' = [todo EXCEPT ![t] = Tail(@)]
  /\ MovedBy(t)
  /\ UNCHANGED <<port, inbox, pc, cfg, skip, pending, confirmed, mismatched,
                 verifyVars, signalVars, hups, unread, applied>>

MixBurst(t) == Burst(t, "mix", Without(MixesOf[cfg[t]], skip[t]))

\* The links are out: wait for their reports, blindly if the port is held.
ReachBarrier(t) ==
  /\ pc[t] = "links" /\ todo[t] = <<>>
  /\ pending' = [pending EXCEPT ![t] = AwaitedOf[cfg[t]]]
  /\ \/ /\ AwaitedOf[cfg[t]] = {}
        /\ MixBurst(t)
        /\ UNCHANGED <<port, inbox>>
     \/ /\ AwaitedOf[cfg[t]] # {}
        /\ Bind(t, "echo")
        /\ UNCHANGED todo
     \/ /\ AwaitedOf[cfg[t]] # {} /\ port # "free"
        /\ Goto(t, "settle")
        /\ UNCHANGED <<port, inbox, todo>>
  /\ UNCHANGED <<dev, view, wire, dump, child, drops, turns, cfg, skip, confirmed,
                 mismatched, verifyVars, signalVars, history>>

\* bug: a report of an awaited link counts whatever its value.
HearEchoOfAnyValue(t) ==
  /\ pc[t] = "echo" /\ inbox # <<>>
  /\ pending' = [pending EXCEPT ![t] = {m \in @ : m.reg # Head(inbox).reg}]
  /\ IF pending'[t] = {}
     THEN Close /\ MixBurst(t)
     ELSE inbox' = Tail(inbox) /\ UNCHANGED <<port, pc, todo>>
  /\ UNCHANGED <<dev, view, wire, dump, child, drops, turns, cfg, skip, confirmed,
                 mismatched, verifyVars, signalVars, history>>

\* A report at the barrier; only the awaited value of an awaited link counts.
HearEcho(t) ==
  /\ pc[t] = "echo" /\ inbox # <<>>
  /\ pending' = [pending EXCEPT ![t] = @ \ {Head(inbox)}]
  /\ IF pending'[t] = {}
     THEN Close /\ MixBurst(t)
     ELSE inbox' = Tail(inbox) /\ UNCHANGED <<port, pc, todo>>
  /\ UNCHANGED <<dev, view, wire, dump, child, drops, turns, cfg, skip, confirmed,
                 mismatched, verifyVars, signalVars, history>>

\* bug: the timeout returns without closing the listener.
EchoTimeoutLeaks(t) ==
  /\ pc[t] = "echo" /\ BarrierOver
  /\ MixBurst(t)
  /\ UNCHANGED <<deskVars, cfg, skip, pending, confirmed, mismatched, verifyVars,
                 signalVars, history>>

\* bug: without an echo the mix is not written.
EchoTimeoutGivesUp(t) ==
  /\ pc[t] = "echo" /\ BarrierOver
  /\ Close /\ Burst(t, "mix", <<>>)
  /\ UNCHANGED <<dev, view, wire, dump, child, drops, turns, cfg, skip, pending,
                 confirmed, mismatched, verifyVars, signalVars, history>>

\* LINK_ECHO_TIMEOUT: normal when the pair was linked already.  A listener that
\* heard a datagram but no message in it ends the wait the same way.
EchoTimeout(t) ==
  /\ pc[t] = "echo" /\ BarrierOver
  /\ Close /\ MixBurst(t)
  /\ UNCHANGED <<dev, view, wire, dump, child, drops, turns, cfg, skip, pending,
                 confirmed, mismatched, verifyVars, signalVars, history>>

\* LINK_SETTLE has passed, with the port held by somebody else.
Settled(t) ==
  /\ pc[t] = "settle" /\ DeadlineFor(LinkRegs)
  /\ MixBurst(t)
  /\ UNCHANGED <<deskVars, cfg, skip, pending, confirmed, mismatched,
                 verifyVars, signalVars, history>>

----------------------------------------------------------------------------
(* An observation window: verify_routing and _observe.                     *)

\* The port is bound before the dump is requested; None when it is held.
Listen(t) ==
  /\ pc[t] = "listen"
  /\ confirmed' = [confirmed EXCEPT ![t] = {}]
  /\ mismatched' = [mismatched EXCEPT ![t] = {}]
  /\ Bind(t, "refresh")
  /\ UNCHANGED <<dev, view, wire, dump, child, drops, turns, cfg, todo, skip,
                 pending, verifyVars, signalVars, history>>

RequestDump(t) ==
  /\ pc[t] = "refresh"
  /\ PutRefresh
  /\ Goto(t, "top")
  /\ moved' = [moved EXCEPT ![t] = IF dump = <<>> /\ wire = <<>> /\ inbox = <<>>
                                   THEN {} ELSE @]
  /\ UNCHANGED <<port, inbox, cfg, todo, skip, pending, confirmed, mismatched,
                 verifyVars, signalVars, hups, unread, applied>>

CloseWindow(t) ==
  /\ pc[t] = "top"
  /\ Close /\ Goto(t, "judge")
  /\ UNCHANGED <<dev, view, wire, dump, child, drops, turns, cfg, todo, skip, pending,
                 confirmed, mismatched, verifyVars, signalVars, history>>

\* The three ways the loop of _observe ends, tested at its top.
WindowStopped(t)  == ShouldStop(t) /\ CloseWindow(t)
WindowComplete(t) == /\ WindowMayClose(Registers(t), confirmed[t], mismatched[t])
                     /\ CloseWindow(t)
WindowDeadline(t) == DeadlineFor(Registers(t)) /\ CloseWindow(t)

\* None of them yet: block on the socket.
AwaitReport(t) ==
  /\ pc[t] = "top" /\ ~ShouldStop(t)
  /\ ~WindowMayClose(Registers(t), confirmed[t], mismatched[t])
  /\ Goto(t, "recv")
  /\ UNCHANGED <<deskVars, cfg, todo, skip, pending, confirmed, mismatched,
                 verifyVars, signalVars, history>>

\* bug: a socket without a timeout.
NothingHeardBlocks(t) ==
  /\ pc[t] = "recv" /\ inbox = <<>>
  /\ UNCHANGED vars

\* The socket timeout of 0.25 s.
NothingHeard(t) ==
  /\ pc[t] = "recv" /\ inbox = <<>>
  /\ Goto(t, "top")
  /\ UNCHANGED <<deskVars, cfg, todo, skip, pending, confirmed, mismatched,
                 verifyVars, signalVars, history>>

\* bug: the report is recorded, not its path.
AbsorbWholeReport(t, m) ==
  /\ confirmed' = IF m \in WantedOf[cfg[t]]
                  THEN [confirmed EXCEPT ![t] = @ \union {m}] ELSE confirmed
  /\ UNCHANGED mismatched

\* _absorb: a confirmation is final, and overrides an earlier mismatch.
Absorb(t, m) ==
  IF m.reg \notin Registers(t) \/ m.reg \in confirmed[t]
  THEN UNCHANGED <<confirmed, mismatched>>
  ELSE IF m \in WantedOf[cfg[t]]
  THEN /\ confirmed' = [confirmed EXCEPT ![t] = @ \union {m.reg}]
       /\ mismatched' = [mismatched EXCEPT ![t] = @ \ {m.reg}]
  ELSE /\ mismatched' = [mismatched EXCEPT ![t] = @ \union {m.reg}]
       /\ UNCHANGED confirmed

\* bug: the flag is set and the mix is not sent.
ObserveLinksWithoutWriting(t, m) ==
  /\ pendingLinks' = pendingLinks \ {m}
  /\ reapplied' = (reapplied \/ pendingLinks' = {})
  /\ Goto(t, "top") /\ UNCHANGED todo

\* bug: a stale report of the opposite value releases the re-apply.
ObserveLinksOfAnyValue(t, m) ==
  LET left == {p \in pendingLinks : p.reg # m.reg}
  IN  /\ pendingLinks' = left
      /\ IF left = {} /\ ~reapplied /\ ~ShouldStop(t)
         THEN reapplied' = TRUE /\ Burst(t, "remix", RemixOf[cfg[t]])
         ELSE Goto(t, "top") /\ UNCHANGED <<todo, reapplied>>

\* bug: write 1 of 3 is not guarded by a stop check of its own.
ObserveLinksUnasked(t, m) ==
  LET stale == \E p \in pendingLinks : p.reg = m.reg /\ p # m
      left  == pendingLinks \ {m}
  IN  /\ pendingLinks' = left
      /\ IF ~stale /\ left = {} /\ ~reapplied
         THEN reapplied' = TRUE /\ Burst(t, "remix", RemixOf[cfg[t]])
         ELSE Goto(t, "top") /\ UNCHANGED <<todo, reapplied>>

\* _link_sync_observer: a stale link value releases nothing; when the last
\* link has been reported, write 1 of 3 follows unless a stop was asked.
ObserveLinks(t, m) ==
  LET stale == \E p \in pendingLinks : p.reg = m.reg /\ p # m
      left  == pendingLinks \ {m}
  IN  /\ pendingLinks' = left
      /\ IF ~stale /\ left = {} /\ ~reapplied /\ ~ShouldStop(t)
         THEN /\ reapplied' = TRUE
              /\ Burst(t, "remix", RemixOf[cfg[t]])
         ELSE Goto(t, "top") /\ UNCHANGED <<todo, reapplied>>

HearReport(t) ==
  /\ pc[t] = "recv" /\ inbox # <<>>
  /\ inbox' = Tail(inbox)
  /\ Absorb(t, Head(inbox))
  /\ IF t = "verify" THEN ObserveLinks(t, Head(inbox))
     ELSE Goto(t, "top") /\ UNCHANGED <<todo, pendingLinks, reapplied>>
  /\ UNCHANGED <<dev, view, wire, dump, child, port, drops, turns, cfg, skip, pending,
                 attempt, verdict, signalVars, history>>

----------------------------------------------------------------------------
(* The verifier: deferred_verify and verify_and_repair.                    *)

VerifierEnds(v) ==
  /\ Goto("verify", "done")
  /\ verdict' = v

\* VERIFY_SETTLE, before the first attempt and after a repair; a stop ends
\* the wait early, and is asked for again before the attempt.
SettlingEnds ==
  /\ pc["verify"] = "settling"
  /\ IF ShouldStop("verify") THEN VerifierEnds(verdict)
     ELSE Goto("verify", "listen") /\ UNCHANGED verdict
  /\ UNCHANGED <<deskVars, cfg, todo, skip, pending, confirmed, mismatched, attempt,
                 pendingLinks, reapplied, signalVars, history>>

\* verify_routing returned None, and blind_reapply_mix requests the dump
\* that teaches oscmix the links without hearing it.
VerifyBlind ==
  /\ pc["verify"] = "listen" /\ port # "free"
  /\ IF ShouldStop("verify")
     THEN /\ VerifierEnds(verdict)
          /\ UNCHANGED <<dev, view, wire, dump, child, drops, turns>>
     ELSE /\ PutRefresh
          /\ Goto("verify", "blind") /\ UNCHANGED verdict
  /\ UNCHANGED <<port, inbox, cfg, todo, skip, pending, confirmed, mismatched,
                 attempt, pendingLinks, reapplied, signalVars, history>>

\* LINK_SYNC_BLIND_DELAY: long enough for the links of the dump.
BlindDelayEnds ==
  /\ pc["verify"] = "blind"
  /\ \/ /\ ShouldStop("verify")
        /\ VerifierEnds(verdict) /\ UNCHANGED todo
     \/ /\ ~ShouldStop("verify") /\ DeadlineFor(LinkRegs)
        /\ Burst("verify", "blindmix", RemixOf[cfg["verify"]])
        /\ UNCHANGED verdict
  /\ UNCHANGED <<deskVars, cfg, skip, pending, confirmed, mismatched, attempt,
                 pendingLinks, reapplied, signalVars, history>>

\* Write 2 of 3: the window never reported the links, the mix is written
\* anyway.
ReapplyWithoutConfirmation ==
  /\ reapplied' = TRUE
  /\ Burst("verify", "rewrite", RemixOf[cfg["verify"]])

\* The window is over.
VerifyJudge ==
  /\ pc["verify"] = "judge"
  /\ \/ /\ ShouldStop("verify")
        /\ VerifierEnds(verdict) /\ UNCHANGED <<todo, reapplied>>
     \/ /\ ~ShouldStop("verify") /\ reapplied
        /\ Goto("verify", "report") /\ UNCHANGED <<todo, reapplied, verdict>>
     \/ /\ ~ShouldStop("verify") /\ ~reapplied
        /\ ReapplyWithoutConfirmation /\ UNCHANGED verdict
  /\ UNCHANGED <<deskVars, cfg, skip, pending, confirmed, mismatched, attempt,
                 pendingLinks, signalVars, history>>

\* No problem: "routing verified against device state".  On the first
\* attempt a problem is answered by write 3 of 3, a whole apply that leaves
\* alone what the device may keep.
VerifyReport ==
  /\ pc["verify"] = "report"
  /\ IF Problems("verify") = {}
     THEN VerifierEnds("verified") /\ UNCHANGED <<todo, skip, attempt>>
     ELSE IF attempt = 2
     THEN VerifierEnds("unconfirmed") /\ UNCHANGED <<todo, skip, attempt>>
     ELSE IF ShouldStop("verify")
     THEN VerifierEnds(verdict) /\ UNCHANGED <<todo, skip, attempt>>
     ELSE /\ StartApply("verify", Kept("verify"))
          /\ attempt' = 2
          /\ UNCHANGED verdict
  /\ UNCHANGED <<deskVars, cfg, pending, confirmed, mismatched, pendingLinks,
                 reapplied, signalVars, history>>

\* A burst of the verifier is out.
VerifyBurstOut ==
  /\ todo["verify"] = <<>>
  /\ \/ pc["verify"] = "mix"      /\ Goto("verify", "settling") /\ UNCHANGED verdict
     \/ pc["verify"] = "remix"    /\ Goto("verify", "top")      /\ UNCHANGED verdict
     \/ pc["verify"] = "rewrite"  /\ Goto("verify", "report")   /\ UNCHANGED verdict
     \/ pc["verify"] = "blindmix" /\ VerifierEnds("skipped")
  /\ UNCHANGED <<deskVars, cfg, todo, skip, pending, confirmed, mismatched, attempt,
                 pendingLinks, reapplied, signalVars, history>>

----------------------------------------------------------------------------
(* The main thread: run_session, supervise, _reconcile, _await_verifier.   *)

\* _await_backend_port: the port listens, the child is dead, or ten
\* seconds are over.  A config that declares nothing is not applied.
BackendAwaited ==
  /\ pc["main"] = "boot"
  /\ child \in {"up", "dead"} \/ ~Prompt
  /\ IF child = "dead"
     THEN Goto("main", "supervise") /\ UNCHANGED <<todo, skip, ready>>
     ELSE IF Registers("main") = {}
     THEN Goto("main", "supervise") /\ ready' = TRUE /\ UNCHANGED <<todo, skip>>
     ELSE StartApply("main", {}) /\ UNCHANGED ready
  /\ UNCHANGED <<deskVars, cfg, pending, confirmed, mismatched, verifyVars,
                 stop, reload, killing, file, history>>

\* The first apply is out: the verifier starts, and the service is ready.
FirstApplyOut ==
  /\ pc["main"] = "mix" /\ todo["main"] = <<>> /\ ~ready
  /\ pc' = [pc EXCEPT !["main"] = "supervise", !["verify"] = "settling"]
  /\ ready' = TRUE
  /\ pendingLinks' = AwaitedOf[cfg["verify"]]
  /\ reapplied' = (pendingLinks' = {})
  /\ UNCHANGED <<deskVars, cfg, todo, skip, pending, confirmed, mismatched, attempt,
                 verdict, stop, reload, killing, file, history>>

\* bug: the flag is cleared when the reconcile is over.
ReloadApplyOutClears ==
  /\ pc["main"] = "mix" /\ todo["main"] = <<>> /\ ready
  /\ reload' = FALSE
  /\ Goto("main", "stopcheck")
  /\ applied' = [applied EXCEPT !.done = TRUE]
  /\ UNCHANGED <<deskVars, cfg, todo, skip, pending, confirmed, mismatched,
                 verifyVars, stop, killing, ready, file, hups, moved, unread>>

ReloadApplyOut ==
  /\ pc["main"] = "mix" /\ todo["main"] = <<>> /\ ready
  /\ Goto("main", "stopcheck")
  /\ applied' = [applied EXCEPT !.done = TRUE]
  /\ UNCHANGED <<deskVars, cfg, todo, skip, pending, confirmed, mismatched,
                 verifyVars, signalVars, hups, moved, unread>>

\* child.wait(0.5) returned the exit status, or timed out.
ChildWaited ==
  /\ pc["main"] = "supervise"
  /\ Goto("main", IF child = "dead" THEN "join" ELSE "poll")
  /\ UNCHANGED <<deskVars, cfg, todo, skip, pending, confirmed, mismatched,
                 verifyVars, signalVars, history>>

\* bug: a reload without a callback swallows the request.
PollReloadIgnores ==
  /\ pc["main"] = "poll" /\ reload /\ ~stop
  /\ reload' = FALSE
  /\ Goto("main", "stopcheck")
  /\ UNCHANGED <<deskVars, cfg, todo, skip, pending, confirmed, mismatched,
                 verifyVars, stop, killing, ready, file, history>>

\* The flag is cleared before the reconcile runs.
PollReload ==
  /\ pc["main"] = "poll" /\ reload /\ ~stop
  /\ reload' = FALSE
  /\ Goto("main", "reload")
  /\ UNCHANGED <<deskVars, cfg, todo, skip, pending, confirmed, mismatched,
                 verifyVars, stop, killing, ready, file, history>>

\* The stop half of an iteration: the first one after a stop starts the
\* grace of the child ...
AtStopCheck == \/ pc["main"] = "poll" /\ ~(reload /\ ~stop)
               \/ pc["main"] = "stopcheck"

\* bug: every iteration sets the deadline anew.
PollStopForever ==
  /\ AtStopCheck
  /\ Goto("main", "supervise")
  /\ UNCHANGED <<deskVars, cfg, todo, skip, pending, confirmed, mismatched,
                 verifyVars, signalVars, history>>

PollStop ==
  /\ AtStopCheck
  /\ killing' = (killing \/ stop)
  /\ Goto("main", "supervise")
  /\ UNCHANGED <<deskVars, cfg, todo, skip, pending, confirmed, mismatched,
                 verifyVars, stop, reload, ready, file, history>>

\* ... and one after CHILD_STOP_GRACE ends it with SIGKILL.
Escalate ==
  /\ AtStopCheck /\ stop /\ killing
  /\ child' = "dead" /\ wire' = <<>> /\ dump' = <<>>
  /\ Goto("main", "join")
  /\ UNCHANGED <<dev, view, port, inbox, drops, turns, cfg, todo, skip, pending,
                 confirmed, mismatched, verifyVars, signalVars, history>>

\* _reconcile: a file that does not parse leaves everything as it is.
ReadConfig ==
  /\ pc["main"] = "reload"
  /\ IF file = Broken THEN Goto("main", "stopcheck") /\ UNCHANGED cfg
     ELSE Goto("main", "listen") /\ cfg' = [cfg EXCEPT !["main"] = file]
  /\ unread' = FALSE
  /\ UNCHANGED <<deskVars, todo, skip, pending, confirmed, mismatched, verifyVars,
                 signalVars, hups, moved, applied>>

\* reconcile_now refuses without a dump.
ReconcileRefused ==
  /\ pc["main"] = "listen" /\ port # "free"
  /\ Goto("main", "stopcheck")
  /\ UNCHANGED <<deskVars, cfg, todo, skip, pending, confirmed, mismatched,
                 verifyVars, signalVars, history>>

ReconcileJudge ==
  /\ pc["main"] = "judge"
  /\ IF ShouldStop("main")
     THEN Goto("main", "stopcheck") /\ UNCHANGED <<todo, skip, applied>>
     ELSE /\ StartApply("main", Kept("main"))
          /\ applied' = Applied(cfg["main"], FALSE, pc["verify"] \in {"none", "done"})
  /\ UNCHANGED <<deskVars, cfg, pending, confirmed, mismatched, verifyVars,
                 signalVars, hups, moved, unread>>

\* The session leaves when the verifier has stopped, or its grace is over;
\* the daemon thread and its socket go with the process.
Exits ==
  /\ pc["main"] = "join"
  /\ pc["verify"] \in {"none", "done"} \/ ~Prompt
  /\ pc' = [pc EXCEPT !["main"] = "exit",
                      !["verify"] = IF @ \in {"none", "done"} THEN @ ELSE "cut"]
  /\ IF port = "verify" THEN Close ELSE UNCHANGED <<port, inbox>>
  /\ UNCHANGED <<dev, view, wire, dump, child, drops, turns, cfg, todo, skip, pending,
                 confirmed, mismatched, verifyVars, signalVars, history>>

----------------------------------------------------------------------------
(* Signals, and the editor that changes routing.conf.                      *)

Alive == pc["main"] # "exit"

\* SIGTERM: the handler sets the flag and terminates the child, which dies
\* by BackendDies or by Escalate.
StopAsked ==
  /\ Alive /\ ~stop
  /\ stop' = TRUE
  /\ UNCHANGED <<deskVars, threadVars, verifyVars, reload, killing, ready, file, history>>

\* SIGHUP, after the file was edited or not.
HupAsked ==
  /\ Alive /\ hups < MaxHups
  /\ file' \in {file} \union Edits
  /\ reload' = TRUE /\ unread' = TRUE /\ hups' = hups + 1
  /\ UNCHANGED <<deskVars, threadVars, verifyVars, stop, killing, ready, moved,
                 applied>>

Apply(t)  == SendNext(t) \/ ReachBarrier(t) \/ HearEcho(t) \/ EchoTimeout(t) \/ Settled(t)
Window(t) == \/ Listen(t) \/ RequestDump(t) \/ AwaitReport(t) \/ NothingHeard(t)
             \/ HearReport(t) \/ WindowStopped(t) \/ WindowComplete(t)
             \/ WindowDeadline(t)

VerifyStep == \/ Apply("verify") \/ Window("verify")
              \/ SettlingEnds \/ VerifyBlind \/ BlindDelayEnds
              \/ VerifyJudge \/ VerifyReport \/ VerifyBurstOut

MainStep == \/ Apply("main") \/ Window("main")
            \/ BackendAwaited \/ FirstApplyOut \/ ReloadApplyOut \/ ChildWaited
            \/ PollReload \/ PollStop \/ Escalate \/ ReadConfig \/ ReconcileRefused
            \/ ReconcileJudge \/ Exits

Hand == /\ \E r \in HandRegs : HandTurns(r)
        /\ MovedBy("nobody")
        /\ UNCHANGED <<hups, unread, applied>>

DeskStep == DumpNext \/ Deliver \/ BackendBinds

Environment ==
  \/ /\ DeskStep \/ BackendDies \/ GuiOpens \/ GuiCloses
     /\ UNCHANGED history
  \/ Hand

Next ==
  \/ MainStep \/ VerifyStep \/ StopAsked \/ HupAsked
  \/ Environment /\ UNCHANGED <<threadVars, verifyVars, signalVars>>

Spec == Init /\ [][Next]_vars

=============================================================================
