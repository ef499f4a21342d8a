---------------------------- MODULE ProfileSwitch ----------------------------
(***************************************************************************)
(* oscmix-desk --profile NAME: one process that parses a profile, writes   *)
(* it, reads the device back and states one of three outcomes              *)
(* (profiles.switch_profile, ADR 0011).  It delegates the writing to       *)
(* apply_routing and the reading to verify_routing, so it is the Apply and *)
(* the Window of Session, run by a thread of its own ("main" here), beside *)
(* the mixer GUI and the device of Desk.  A session may be running: its    *)
(* main thread waits for its child, and its verifier may still be at work  *)
(* ("verify"), with the routing the session came with.                     *)
(***************************************************************************)
EXTENDS SessionProperties

CONSTANTS
  NoSession,  \* no verifier is at work
  Beginnings  \* what a switch may find when it begins

\* asks: the caller wants the read-back (verify=); known: oscmix knows the
\* links; session: the configuration of the session whose verifier is at
\* work; drops, turns: how much has been lost and turned before.
ASSUME SwitchConstants ==
  /\ Beginnings \subseteq
       [asks : BOOLEAN, known : BOOLEAN, child : {"up", "dead"}, port : {"free", "gui"},
        session : Configs \union {NoSession}, drops : 0 .. MaxDrops, turns : 0 .. MaxTurns]
  /\ Broken \in Edits

VARIABLES
  asks,         \* this caller does
  outcome,      \* Outcome.state, "none" before there is one
  unverified,   \* Outcome.unverified
  unverifiable, \* Outcome.unverifiable
  written,      \* history: a datagram of the profile was sent
  known         \* history: oscmix knew the links of the device beforehand

switchVars == <<asks, outcome, unverified, unverifiable, written, known>>
allVars == <<vars, switchVars>>

APPLIED == {"applied-verified", "applied-unverified"}

\* A backend that somebody has dumped since it started knows the links of the
\* device; one that nobody has takes every pair for unlinked.  A session that
\* is running has said READY, and its verifier is about to look.
SwitchInit ==
  \E b \in Beginnings, c \in Startups :
    /\ dev \in InitialDevs
    /\ view = [r \in LinkRegs |-> IF b.known THEN dev[r] ELSE <<0>>]
    /\ wire = <<>> /\ dump = <<>> /\ inbox = <<>>
    /\ child = b.child /\ port = b.port /\ drops = b.drops /\ turns = b.turns
    /\ file \in {c, Broken}
    /\ pc = [t \in Thread |-> IF t = "main" THEN "boot"
                             ELSE IF b.session = NoSession THEN "none" ELSE "settling"]
    /\ cfg = [t \in Thread |-> IF t = "main" \/ b.session = NoSession THEN c ELSE b.session]
    /\ pendingLinks = IF b.session = NoSession THEN {} ELSE AwaitedOf[b.session]
    /\ reapplied = (b.session # NoSession /\ pendingLinks = {})
    /\ todo = [t \in Thread |-> <<>>]
    /\ skip = [t \in Thread |-> {}] /\ pending = [t \in Thread |-> {}]
    /\ confirmed = [t \in Thread |-> {}] /\ mismatched = [t \in Thread |-> {}]
    /\ attempt = 1 /\ verdict = "none"
    /\ stop = FALSE /\ reload = FALSE /\ killing = FALSE /\ ready = FALSE
    /\ hups = 0 /\ moved = [t \in Thread |-> {}] /\ unread = FALSE
    /\ applied = Applied(c, FALSE, FALSE)
    /\ asks = b.asks /\ known = b.known
    /\ outcome = "none" /\ unverified = {} /\ unverifiable = {} /\ written = FALSE

----------------------------------------------------------------------------

Says(what, missed, blind) ==
  /\ outcome' = what /\ unverified' = missed /\ unverifiable' = blind
  /\ Goto("main", "exit")
  /\ UNCHANGED <<asks, written, known>>

KeepsThreads ==
  UNCHANGED <<cfg, skip, pending, confirmed, mismatched, verifyVars, signalVars, history>>

\* load_profile comes first, before any socket exists.
Refused ==
  /\ pc["main"] = "boot" /\ file = Broken
  /\ Says("refused", {}, {})
  /\ KeepsThreads /\ UNCHANGED <<deskVars, todo>>

\* bug: links, mix and channel state one after the other, as the first
\* version did.
WritesWithoutBarrier ==
  /\ pc["main"] = "boot" /\ file # Broken
  /\ Burst("main", "mix", LinksOf[file] \o MixesOf[file])
  /\ KeepsThreads /\ UNCHANGED <<deskVars, switchVars>>

Writes ==
  /\ pc["main"] = "boot" /\ file # Broken
  /\ StartApply("main", {})
  /\ UNCHANGED <<deskVars, cfg, pending, confirmed, mismatched, verifyVars, signalVars,
                 history, switchVars>>

\* The apply is out.  Nobody looks, or the read-back begins.
ApplyIsOut ==
  /\ pc["main"] = "mix" /\ todo["main"] = <<>>
  /\ IF asks THEN Goto("main", "listen") /\ UNCHANGED switchVars
     ELSE Says("applied-unverified", Registers("main"), {})
  /\ KeepsThreads /\ UNCHANGED <<deskVars, todo>>

\* bug: "could not look" is taken for "did not happen".
CannotListenRefuses ==
  /\ pc["main"] = "listen" /\ port # "free"
  /\ Says("refused", {}, {})
  /\ KeepsThreads /\ UNCHANGED <<deskVars, todo>>

\* The mixer GUI holds the port.
CannotListen ==
  /\ pc["main"] = "listen" /\ port # "free"
  /\ Says("applied-unverified", Registers("main"), {})
  /\ KeepsThreads /\ UNCHANGED <<deskVars, todo>>

\* bug: what was never reported is no miss.
JudgedByMismatch ==
  /\ pc["main"] = "judge"
  /\ IF mismatched["main"] = {} THEN Says("applied-verified", {}, {})
     ELSE Says("applied-unverified", mismatched["main"], {})
  /\ KeepsThreads /\ UNCHANGED <<deskVars, todo>>

\* bug: what cannot be reported is dropped from the list.
JudgedQuietly ==
  LET missed == Registers("main") \ confirmed["main"]
      blind  == {r \in missed : ~RegisterEverReported(r)}
  IN  /\ pc["main"] = "judge"
      /\ IF missed = {} THEN Says("applied-verified", {}, {})
         ELSE Says("applied-unverified", missed \ blind, blind)
      /\ KeepsThreads /\ UNCHANGED <<deskVars, todo>>

\* _check: everything mismatched or unobserved is unverified, and what this
\* backend never reports is named apart as well.
Judged ==
  LET missed == Registers("main") \ confirmed["main"]
      blind  == {r \in missed : ~RegisterEverReported(r)}
  IN  /\ pc["main"] = "judge"
      /\ IF missed = {} THEN Says("applied-verified", {}, {})
         ELSE Says("applied-unverified", missed, blind)
      /\ KeepsThreads /\ UNCHANGED <<deskVars, todo>>

\* apply_routing and verify_routing.
Delegated ==
  /\ Apply("main") \/ Window("main")
  /\ written' = (written \/ (pc["main"] \in Writing /\ todo["main"] # <<>>))
  /\ UNCHANGED <<asks, outcome, unverified, unverifiable, known>>

SwitchStep == Refused \/ Writes \/ ApplyIsOut \/ CannotListen \/ Judged \/ Delegated

Quietly == UNCHANGED <<threadVars, verifyVars, signalVars, switchVars>>

SwitchNext ==
  \/ SwitchStep
  \/ VerifyStep /\ UNCHANGED switchVars
  \/ Environment /\ Quietly

SwitchSpec == SwitchInit /\ [][SwitchNext]_allVars

----------------------------------------------------------------------------

(* The variables of the session and of the outcome hold what they may.     *)
SwitchTypeOK ==
  /\ TypeOK
  /\ outcome \in {"none", "refused"} \union APPLIED
  /\ unverifiable \subseteq unverified /\ unverified \subseteq Reg
  /\ asks \in BOOLEAN /\ written \in BOOLEAN /\ known \in BOOLEAN

(* "Refused" means not one datagram, "applied" that the profile went out:  *)
(* the answer to "may I run this again?" (ADR 0011).                       *)
OutcomeSaysWhatWasWritten ==
  /\ outcome = "refused" => ~written
  /\ outcome \in APPLIED /\ Desired(cfg["main"]) # <<>> => written

\* The register holds what the message put there.
Holds(m) == dev[m.reg] = IF m.reg[1] = "mix" THEN <<m.args[1]>> ELSE m.args

(* What is not at the device as the profile says is in the list of the     *)
(* outcome -- which is empty when it says "verified" -- unless somebody    *)
(* moved it after the dump was requested.                                  *)
EveryMissIsNamed ==
  outcome \in APPLIED =>
    \A m \in WantedOf[cfg["main"]] :
      Holds(m) \/ m.reg \in unverified \union moved["main"]

\* What the list of misses supposes of a profile: it says one thing about
\* each register it names, and the cells of the mix are in no dump.
SaysOneThing ==
  /\ \A r \in ToSet(DumpOrder) : r[1] # "mix"
  /\ \A c \in Startups : \A m \in WantedOf[c], w \in Plan(c) :
       m.reg[1] # "mix" /\ w.reg = m.reg => w = m

Alone == pc["verify"] = "none"

\* What the next promise supposes of the desk and of a profile: the barrier's
\* time is long enough, nobody turns the mix or a link, and the routes do not
\* get into each other's way.
Untouched ==
  /\ ~Garbled /\ Late \intersect LinkRegs = {} /\ HandsOff
  /\ \A c \in Startups : Wired(c)

(* A switch keeps the link barrier: with no session at work on the device, *)
(* nothing lost, the backend alive and the links known to it, both sides   *)
(* of every pair of the profile are fed, with the receive port to itself   *)
(* or not.                                                                 *)
SwitchedMeansAudible ==
  outcome \in APPLIED /\ drops = 0 /\ child = "up" /\ known /\ Alone => RoutedAs(cfg["main"])

(* The same of a backend nobody has dumped: a link that is set already is  *)
(* not reported when it is written, and the mix is folded without it.  The *)
(* session re-applies the mix after its dump, the switch does not.         *)
SwitchedMeansAudibleAnyhow ==
  outcome \in APPLIED /\ drops = 0 /\ child = "up" /\ Alone => RoutedAs(cfg["main"])

(* The profile is what remains when a session's verifier has come to its   *)
(* end as well.                                                            *)
SwitchIsLastWord ==
  outcome \in APPLIED /\ known /\ child = "up" /\ pc["verify"] = "done" => RoutedAs(cfg["main"])

\* The process and the session's verifier keep running, the device and oscmix
\* answer, and the deadline of the window is over some time.
SwitchFairSpec ==
  /\ SwitchSpec
  /\ WF_allVars(SwitchStep)
  /\ WF_allVars(DeskStep /\ Quietly /\ UNCHANGED history)
  /\ WF_allVars(VerifyStep /\ UNCHANGED switchVars)
  /\ SF_allVars(WindowDeadline("main") /\ Delegated)

(* A switch states an outcome, whatever the GUI and the backend do.        *)
SwitchEnds == <>(outcome # "none")

=============================================================================
