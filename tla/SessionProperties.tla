-------------------------- MODULE SessionProperties --------------------------
(***************************************************************************)
(* What the session promises: the invariants, action properties and        *)
(* liveness properties that the runs check and SessionProofs proves.       *)
(***************************************************************************)
EXTENDS Session

ThreadTypeOK ==
  /\ pc \in [Thread -> PCs] /\ cfg \in [Thread -> Configs]
  /\ todo \in [Thread -> Seq(Sendable)]
  /\ skip \in [Thread -> SUBSET Reg] /\ pending \in [Thread -> SUBSET Report]
  /\ confirmed \in [Thread -> SUBSET Reg] /\ mismatched \in [Thread -> SUBSET Reg]

VerifierTypeOK ==
  /\ attempt \in 1 .. 2 /\ pendingLinks \subseteq Report /\ reapplied \in BOOLEAN
  /\ verdict \in {"none", "verified", "unconfirmed", "skipped"}

SignalTypeOK ==
  /\ stop \in BOOLEAN /\ reload \in BOOLEAN /\ killing \in BOOLEAN /\ ready \in BOOLEAN
  /\ file \in Configs \union Edits

HistoryTypeOK ==
  /\ hups \in 0 .. MaxHups /\ unread \in BOOLEAN
  /\ moved \in [Thread -> SUBSET Reg]
  /\ applied \in [config : Configs, done : BOOLEAN, alone : BOOLEAN]

(* The variables hold what the code could hold: every burst is made of     *)
(* messages the device knows, every set of registers of registers.         *)
TypeOK ==
  DeskTypeOK /\ ThreadTypeOK /\ VerifierTypeOK /\ SignalTypeOK /\ HistoryTypeOK

----------------------------------------------------------------------------
(* The receive port.                                                       *)

\* A thread holds the receive port exactly while it is inside a barrier or
\* an observation window -- the mix re-apply from within the window
\* included -- so every path out of listen() closes the socket and the two
\* threads never read each other's reports.
PortDiscipline ==
  \A t \in Thread :
    port = t <=> pc[t] \in Listening \union {"remix"}

----------------------------------------------------------------------------
(* Stopping (ADR 0009).                                                    *)

\* The verifier as whoever stops it sees it.
AbstractPhase ==
  CASE pc["verify"] \in {"done", "cut"} -> "ended"
    [] pc["verify"] = "blindmix" -> "last"
    [] pc["verify"] \in {"echo", "settle"} \union (Writing \ {"blindmix"}) -> "writing"
    [] OTHER -> "idle"

AbstractLeft ==
  (IF reapplied /\ AwaitedOf[cfg["verify"]] # {} THEN {} ELSE {"mix"})
    \union (IF attempt = 2 THEN {} ELSE {"apply"})

Contract == INSTANCE VerifierContract WITH
  stopping <- ShouldStop("verify"), phase <- AbstractPhase, left <- AbstractLeft

\* The verifier keeps its contract: none of its three writes begins after a
\* stop or over a dead backend, wherever the signal falls between a datagram
\* and the next check; none is repeated; and the blind one is the last.
KeepsItsContract == Contract!Spec

\* The same of every burst, the second phase of the whole apply included:
\* "asks should_stop() between every phase and before every write".
NoBurstAfterStop ==
  [][ pc["verify"] \notin Writing /\ pc'["verify"] \in Writing
      => ~ShouldStop("verify") ]_vars

----------------------------------------------------------------------------
(* The link barrier and the mix matrix (ADR 0001, 0002).                   *)

\* The mix at the device is what the routes of c say: both sides of a
\* linked pair, each side of an unlinked one.
RoutedAs(c) ==
  \A i \in DOMAIN c.routes :
    LET route == c.routes[i]  src == route.source[1]
        level == MixMessages(route)[1].args[1]
    IN  /\ \A m \in ToSet(LinkMessages(route)) : dev[m.reg] = m.args
        /\ \A out \in ToSet(route.output) : dev[Cell(out, route.kind, src)] = <<level>>

\* oscmix's own link state is the one the plan of c is written for.
ViewAgrees(c) == \A m \in AwaitedOf[c] : view[m.reg] = m.args

\* "routing verified against device state" is logged only when both sides
\* of every pair carry their signal, although the mix is never reported.
VerifiedMeansAudible ==
  verdict = "verified" /\ hups = 0 => RoutedAs(cfg["verify"])

\* The same of "verified ... -- after retry", where the device was repaired
\* and the second read-back found nothing to complain about.
RetryMeansAudible ==
  verdict = "verified" /\ attempt = 2 => RoutedAs(cfg["verify"])

\* The re-apply from within the window (write 1) starts from a link state
\* that oscmix really has: a stale report of a link never releases it.
ReapplyFromKnownLinks ==
  [][ pc["verify"] = "recv" /\ pc'["verify"] = "remix"
      => ViewAgrees(cfg["verify"]) ]_vars

\* A barrier that was ended by reports, not by its timeout, was ended by
\* the right ones: oscmix has the links the mix behind it needs.
BarrierHeardLinks ==
  [][ \A t \in Thread :
        pc[t] = "echo" /\ pc'[t] = "mix" /\ pending'[t] = {}
        => ViewAgrees(cfg[t]) ]_vars

\* The configurations of a session that started with c, and what they need
\* of the links.
Reachable(c)   == {c} \union (IF MaxHups = 0 THEN {} ELSE Edits \ {Broken})
LinksNeeded(C) == UNION {AwaitedOf[c] : c \in C}
Plan(c) == ToSet(LinksOf[c]) \union ToSet(MixesOf[c]) \union ToSet(RemixOf[c])

\* The two results above are about a session that does not turn a link round
\* itself: neither an edit of routing.conf nor a hand at the device unlinks
\* a pair that was linked, or the other way round.
LinksStay ==
  /\ HandRegs \intersect LinkRegs = {}
  /\ \A c \in Startups :
       \A d \in Reachable(c), m \in LinksNeeded(Reachable(c)) :
         \A w \in Plan(d) : w.reg = m.reg => w = m

\* A configuration whose routes do not get into each other's way: one output or
\* an odd output and the next, one route per source and pair of outputs, and no
\* channel section about a link.
Wired(c) ==
  /\ \A i \in DOMAIN c.routes :
       LET route == c.routes[i] IN
       /\ route.kind \in {"input", "playback"} /\ route.stereo \in BOOLEAN /\ route.level \in Int
       /\ route.output \in Seq(Nat \ {0}) /\ Len(route.output) \in 1 .. 2
       /\ Len(route.output) = 2 => /\ route.output[1] % 2 = 1
                                   /\ route.output[2] = route.output[1] + 1
       /\ \A out \in ToSet(route.output) : Cell(out, route.kind, route.source[1]) \in Reg
       /\ \A j \in DOMAIN c.routes :
            j # i /\ c.routes[j].kind = route.kind /\ c.routes[j].source[1] = route.source[1]
            => OddOf(c.routes[j].output[1]) # OddOf(route.output[1])
  /\ LinksAgree(c.routes)
  /\ \A m \in ToSet(c.channels) : m.reg[1] # "mix" /\ m.reg[3] # "stereo"

\* Nobody turns the mix or a link by hand.
HandsOff == \A r \in HandRegs : r[1] # "mix" /\ r[3] # "stereo"

\* What VerifiedMeansAudible supposes: a device that is read in full and that
\* nobody turns against the routing.
Calm ==
  /\ MaxDrops = 0 /\ Prompt /\ Late \intersect LinkRegs = {} /\ HandsOff
  /\ \A c \in Startups :
       Wired(c) /\ {m.reg : m \in AwaitedOf[c]} \subseteq ToSet(DumpOrder)

\* What ReloadAloneWins supposes: the same of the files that are read later,
\* none of which turns a link round.  The code lets no [pin] name a link.
CalmReloads ==
  /\ Calm /\ LinksStay /\ ~Garbled
  /\ \A c \in Configs :
       /\ Wired(c) /\ {m.reg : m \in AwaitedOf[c]} \subseteq ToSet(DumpOrder)
       /\ \A p \in DOMAIN c.policies : p[2] # "stereo"

----------------------------------------------------------------------------
(* Pin and remember (ADR 0012), reload (ADR 0013).                         *)

\* A register that is remembered and differs at the device survives the
\* repair of the verifier and a reconcile: they change it only if it has
\* moved since their own read-back began (or since an older dump, if that
\* one was still under way: a confirmation is final, and may be out of date).
RememberedSurvivesReapply ==
  [][ \A t \in Thread, r \in Reg :
        /\ pc[t] \in Writing /\ pc'[t] = pc[t] /\ todo'[t] # todo[t]
        /\ t = "verify" \/ ready
        /\ PolicyFor(cfg[t], r) = REMEMBER
        /\ dev'[r] # dev[r]
        => r \in moved[t] ]_vars

\* What the last property supposes: no edit turns round who wins, no [pin]
\* names a link (the code lets none), and what a file says of a remembered
\* register is one thing, is read back in time, and is not the volume of a
\* route, which the verifier repeats with the mix.
KeepsWhatItReads ==
  /\ MaxDrops = 0 /\ Prompt
  /\ \A c \in Configs : \A p \in DOMAIN c.policies :
       p[1] \in {"input", "output"} /\ p[2] # "stereo"
  /\ \A c, d \in Configs, r \in Reg : PolicyFor(c, r) = REMEMBER => PolicyFor(d, r) = REMEMBER
  /\ \A c \in Configs : \A m \in Plan(c) :
       PolicyFor(c, m.reg) = REMEMBER =>
         /\ m.reg \in RegistersOf[c] /\ m.reg \in ToSet(DumpOrder) \ Late
         /\ m \notin ToSet(RemixOf[c])
         /\ \A w \in Plan(c) : w.reg = m.reg => w = m

\* A SIGHUP that nobody has read the config for is still queued, also
\* when it arrived in the middle of a reconcile.
UnreadHupIsQueued ==
  unread => reload \/ pc["main"] = "reload"

\* Once a reconcile has gone through and all is quiet the device is routed
\* as the file said, whatever was routed before.
Quiet == /\ pc["main"] \in {"supervise", "poll"} /\ pc["verify"] = "done"
         /\ wire = <<>> /\ dump = <<>>
ReloadedConfigWins ==
  applied.done /\ Quiet /\ child = "up" => RoutedAs(applied.config)

\* The same for a reconcile that began after the verifier had ended.
ReloadAloneWins ==
  applied.done /\ applied.alone /\ Quiet /\ child = "up" => RoutedAs(applied.config)

----------------------------------------------------------------------------
(* Liveness.  Threads, device and backend keep moving; a deadline that     *)
(* comes up again and again is eventually over; nobody owes us a signal,   *)
(* a crash or a closed GUI.                                                *)

FairSpec ==
  /\ Spec
  /\ WF_vars(MainStep) /\ WF_vars(VerifyStep)
  /\ WF_vars(DeskStep /\ UNCHANGED <<history, threadVars, verifyVars, signalVars>>)
  /\ \A t \in Thread : SF_vars(WindowDeadline(t))
  /\ SF_vars(Escalate)

\* A stop ends in an exit, with or without a backend that obeys SIGTERM.
StopLeadsToExit == stop ~> pc["main"] = "exit"

\* The verifier comes to an end, whatever the GUI does with the port.
VerifierFinishes == pc["verify"] = "settling" ~> pc["verify"] \in {"done", "cut"}

\* A SIGHUP is eventually read, unless the session is on its way out.
HupIsServed == unread ~> (~unread \/ stop \/ child = "dead")

=============================================================================
