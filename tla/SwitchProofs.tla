----------------------------- MODULE SwitchProofs -----------------------------
(***************************************************************************)
(* Theorems about a profile switch, for every profile, device and loss.    *)
(* What it delegates is typed by the lemmas of SessionProofs.              *)
(***************************************************************************)
EXTENDS ProfileSwitch, AudibleProofs

\* What a profile asks for is sent in one of the two bursts.
LEMMA PlansAreSent ==
  \A c \in Configs :
    Desired(c) # <<>> => Without(LinksOf[c], {}) # <<>> \/ Without(MixesOf[c], {}) # <<>>
<1>. TAKE c \in Configs
<1>1. LinksOf[c] \in Seq(Sendable) /\ MixesOf[c] \in Seq(Sendable)
  BY BurstsOfConfig
<1>2. Desired(c) = LinksOf[c] \o MixesOf[c]
  BY DEF Desired, LinksOf, MixesOf
<1>3. /\ ToSet(Without(LinksOf[c], {})) = ToSet(LinksOf[c])
      /\ ToSet(Without(MixesOf[c], {})) = ToSet(MixesOf[c])
  <2>1. \A msgs \in {LinksOf[c], MixesOf[c]} :
          ToSet(Without(msgs, {})) = {m \in ToSet(msgs) : m.reg \notin {}}
    BY LeftAloneIsDropped
  <2>2. \A X : {m \in X : m.reg \notin {}} = X
    OBVIOUS
  <2>. QED
    BY <2>1, <2>2
<1>4. ToSet(<<>>) = {}
  BY DEF ToSet
<1>5. \A msgs \in Seq(Sendable) : ToSet(msgs) = {} => msgs = <<>>
  <2>1. ASSUME NEW msgs \in Seq(Sendable), msgs # <<>> PROVE 1 \in DOMAIN msgs
    BY <2>1
  <2>. QED
    BY <2>1 DEF ToSet
<1>. QED
  BY <1>1, <1>2, <1>3, <1>4, <1>5

LEMMA SwitchTypeInit == SwitchInit => SwitchTypeOK
<1>. SUFFICES ASSUME SwitchInit PROVE SwitchTypeOK
  OBVIOUS
<1>. "main" \in Thread
  BY DEF Thread
<1>0. PICK b \in Beginnings, c \in Startups :
        /\ file \in {c, Broken}
        /\ view = [r \in LinkRegs |-> IF b.known THEN dev[r] ELSE <<0>>]
        /\ child = b.child /\ port = b.port /\ drops = b.drops /\ turns = b.turns
        /\ pc = [t \in Thread |-> IF t = "main" THEN "boot"
                                 ELSE IF b.session = NoSession THEN "none" ELSE "settling"]
        /\ cfg = [t \in Thread |-> IF t = "main" \/ b.session = NoSession THEN c ELSE b.session]
        /\ pendingLinks = IF b.session = NoSession THEN {} ELSE AwaitedOf[b.session]
        /\ reapplied = (b.session # NoSession /\ pendingLinks = {})
        /\ applied = Applied(c, FALSE, FALSE)
        /\ asks = b.asks /\ known = b.known
  BY DEF SwitchInit
<1>1. /\ b.known \in BOOLEAN /\ b.asks \in BOOLEAN
      /\ b.child \in {"up", "dead"} /\ b.port \in {"free", "gui"}
      /\ b.session \in Configs \union {NoSession}
      /\ b.drops \in 0 .. MaxDrops /\ b.turns \in 0 .. MaxTurns
  BY SwitchConstants
<1>2. c \in Configs
  BY DEF Configs
<1>3. DeskTypeOK
  <2>1. dev \in [Reg -> Values] /\ <<0>> \in Values
    BY DeskConstants DEF SwitchInit
  <2>2. view \in [LinkRegs -> Values]
    BY <1>0, <2>1 DEF LinkRegs
  <2>3. wire = <<>> /\ dump = <<>> /\ inbox = <<>>
    BY DEF SwitchInit
  <2>. QED
    BY <1>0, <1>1, <2>1, <2>2, <2>3 DEF DeskTypeOK
<1>4. ThreadTypeOK
  <2>1. pc \in [Thread -> PCs]
    BY <1>0 DEF PCs
  <2>2. cfg \in [Thread -> Configs]
    BY <1>0, <1>1, <1>2
  <2>3. /\ todo = [t \in Thread |-> <<>>] /\ skip = [t \in Thread |-> {}]
        /\ pending = [t \in Thread |-> {}] /\ confirmed = [t \in Thread |-> {}]
        /\ mismatched = [t \in Thread |-> {}]
    BY DEF SwitchInit
  <2>. QED
    BY <2>1, <2>2, <2>3 DEF ThreadTypeOK
<1>5. VerifierTypeOK
  <2>1. attempt = 1 /\ verdict = "none"
    BY DEF SwitchInit
  <2>2. pendingLinks \subseteq Report /\ reapplied \in BOOLEAN
    BY <1>0, <1>1, PlansAreTyped
  <2>. QED
    BY <2>1, <2>2, 1 \in 1 .. 2 DEF VerifierTypeOK
<1>6. SignalTypeOK
  <2>1. stop = FALSE /\ reload = FALSE /\ killing = FALSE /\ ready = FALSE
    BY DEF SwitchInit
  <2>2. file \in Configs \union Edits
    BY <1>0, <1>2, SwitchConstants
  <2>. QED
    BY <2>1, <2>2 DEF SignalTypeOK
<1>7. HistoryTypeOK
  <2>1. hups = 0 /\ unread = FALSE /\ moved = [t \in Thread |-> {}]
    BY DEF SwitchInit
  <2>3. hups \in 0 .. MaxHups
    BY <2>1, SessionConstants
  <2>4. moved \in [Thread -> SUBSET Reg] /\ unread \in BOOLEAN
    BY <2>1
  <2>5. applied \in [config : Configs, done : BOOLEAN, alone : BOOLEAN]
    BY <1>0, <1>2 DEF Applied
  <2>. QED
    BY <2>3, <2>4, <2>5 DEF HistoryTypeOK
<1>8. outcome = "none" /\ unverified = {} /\ unverifiable = {} /\ written = FALSE
  BY DEF SwitchInit
<1>. QED
  BY <1>0, <1>1, <1>3, <1>4, <1>5, <1>6, <1>7, <1>8 DEF SwitchTypeOK, TypeOK

\* A step that moves the program counter of the process and nothing else of
\* the session.
LEMMA TypeGoto ==
  ASSUME TypeOK, NEW label \in PCs, Goto("main", label), KeepsThreads,
         UNCHANGED <<deskVars, todo>>
  PROVE  TypeOK'
<1>. USE DEF TypeOK, KeepsThreads
<1>1. pc' \in [Thread -> PCs]
  BY DEF ThreadTypeOK, Goto
<1>2. DeskTypeOK'
  BY DEF DeskTypeOK, deskVars
<1>3. ThreadTypeOK'
  BY <1>1 DEF ThreadTypeOK
<1>4. VerifierTypeOK' /\ SignalTypeOK' /\ HistoryTypeOK'
  BY DEF VerifierTypeOK, SignalTypeOK, HistoryTypeOK, verifyVars, signalVars, history
<1>. QED
  BY <1>2, <1>3, <1>4

LEMMA SaysTyped ==
  ASSUME SwitchTypeOK,
         NEW what \in {"none", "refused"} \union APPLIED,
         NEW missed \in SUBSET Reg, NEW blind \in SUBSET missed,
         Says(what, missed, blind), KeepsThreads, UNCHANGED <<deskVars, todo>>
  PROVE  SwitchTypeOK'
<1>1. TypeOK'
  BY TypeGoto, "exit" \in PCs DEF Says, SwitchTypeOK, PCs
<1>. QED
  BY <1>1 DEF Says, SwitchTypeOK

LEMMA SwitchTypeStep == SwitchTypeOK /\ [SwitchNext]_allVars => SwitchTypeOK'
<1>. SUFFICES ASSUME SwitchTypeOK, [SwitchNext]_allVars PROVE SwitchTypeOK'
  OBVIOUS
<1>. "main" \in Thread
  BY DEF Thread
<1>0. TypeOK /\ ThreadTypeOK
  BY DEF SwitchTypeOK, TypeOK
<1>1. CASE Refused
  <2>1. Says("refused", {}, {}) /\ KeepsThreads /\ UNCHANGED <<deskVars, todo>>
    BY <1>1 DEF Refused
  <2>. QED
    BY <2>1, SaysTyped
<1>2. CASE Writes
  <2>1. Without(LinksOf[cfg["main"]], {}) \in Seq(Sendable)
    BY <1>0, BurstsTyped
  <2>2. pc' \in [Thread -> PCs] /\ todo' \in [Thread -> Seq(Sendable)]
    BY <1>0, <1>2, <2>1 DEF Writes, StartApply, Burst, Goto, ThreadTypeOK, PCs, Writing
  <2>3. ThreadTypeOK'
    BY <1>0, <1>2, <2>2 DEF Writes, StartApply, ThreadTypeOK
  <2>4. DeskTypeOK'
    BY <1>0, <1>2 DEF Writes, TypeOK, DeskTypeOK, deskVars
  <2>5. VerifierTypeOK' /\ SignalTypeOK' /\ HistoryTypeOK'
    BY <1>0, <1>2 DEF Writes, TypeOK, VerifierTypeOK, SignalTypeOK, HistoryTypeOK,
                      verifyVars, signalVars, history
  <2>. QED
    BY <1>2, <2>3, <2>4, <2>5 DEF Writes, SwitchTypeOK, TypeOK, switchVars
<1>3. CASE ApplyIsOut
  <2>1. CASE asks
    <3>1. Goto("main", "listen") /\ KeepsThreads /\ UNCHANGED <<deskVars, todo>>
      BY <1>3, <2>1 DEF ApplyIsOut
    <3>2. TypeOK'
      BY <1>0, <3>1, TypeGoto, "listen" \in PCs DEF PCs
    <3>. QED
      BY <1>3, <2>1, <3>2 DEF ApplyIsOut, SwitchTypeOK, switchVars
  <2>2. CASE ~asks
    <3>1. Says("applied-unverified", Registers("main"), {}) /\ KeepsThreads
          /\ UNCHANGED <<deskVars, todo>>
      BY <1>3, <2>2 DEF ApplyIsOut
    <3>. QED
      BY <1>0, <3>1, BurstsTyped, SaysTyped DEF APPLIED
  <2>. QED
    BY <2>1, <2>2
<1>4. CASE CannotListen
  <2>1. Says("applied-unverified", Registers("main"), {}) /\ KeepsThreads
        /\ UNCHANGED <<deskVars, todo>>
    BY <1>4 DEF CannotListen
  <2>. QED
    BY <1>0, <2>1, BurstsTyped, SaysTyped DEF APPLIED
<1>5. CASE Judged
  <2>. DEFINE missed == Registers("main") \ confirmed["main"]
              blind  == {r \in missed : ~RegisterEverReported(r)}
  <2>1. missed \in SUBSET Reg /\ blind \in SUBSET missed
    BY <1>0, BurstsTyped
  <2>2. KeepsThreads /\ UNCHANGED <<deskVars, todo>>
    BY <1>5 DEF Judged
  <2>3. CASE missed = {}
    <3>1. Says("applied-verified", {}, {})
      BY <1>5, <2>3 DEF Judged
    <3>. QED
      BY <2>2, <3>1, SaysTyped DEF APPLIED
  <2>4. CASE missed # {}
    <3>1. Says("applied-unverified", missed, blind)
      BY <1>5, <2>4 DEF Judged
    <3>. HIDE DEF missed, blind
    <3>. QED
      BY <2>1, <2>2, <3>1, SaysTyped DEF APPLIED
  <2>. QED
    BY <2>3, <2>4
<1>6. CASE Delegated
  <2>1. TypeOK'
    BY <1>0, <1>6, TypeApply, TypeWindow DEF Delegated
  <2>. QED
    BY <1>6, <2>1 DEF Delegated, SwitchTypeOK
<1>7. CASE Environment /\ Quietly
  <2>1. TypeOK'
    BY <1>0, <1>7, TypeEnvironment DEF Quietly
  <2>. QED
    BY <1>7, <2>1 DEF Quietly, SwitchTypeOK, switchVars
<1>8. CASE UNCHANGED allVars
  BY <1>8 DEF allVars, switchVars, vars, deskVars, threadVars, verifyVars, signalVars,
              history, SwitchTypeOK, TypeOK, DeskTypeOK, ThreadTypeOK, VerifierTypeOK,
              SignalTypeOK, HistoryTypeOK
<1>9. CASE VerifyStep /\ UNCHANGED switchVars
  <2>1. TypeOK'
    BY <1>0, <1>9, TypeApply, TypeWindow, TypeVerifier DEF Thread
  <2>. QED
    BY <1>9, <2>1 DEF SwitchTypeOK, switchVars
<1>. QED
  BY <1>1, <1>2, <1>3, <1>4, <1>5, <1>6, <1>7, <1>8, <1>9 DEF SwitchNext, SwitchStep

\* Whatever the profile and whatever is lost: an outcome is one of the three,
\* and what it lists are registers.
THEOREM SwitchTyped == SwitchSpec => []SwitchTypeOK
<1>. QED
  BY SwitchTypeInit, SwitchTypeStep, PTL DEF SwitchSpec

----------------------------------------------------------------------------
(* What a switch has written when it states an outcome.                    *)

\* The first burst of the profile, and the second.
FirstBurst == Without(LinksOf[cfg["main"]], {})
SecondBurst == Without(MixesOf[cfg["main"]], {})

\* Where the process is, something has been written or nothing of the bursts
\* behind it asked for it.
WhatIsOut ==
  /\ pc["main"] \in {"links", "echo", "settle", "mix", "listen", "refresh", "top", "recv",
                     "judge"} \union {"boot", "exit"}
  /\ pc["main"] = "boot" => ~written
  /\ pc["main"] = "links" => written \/ todo["main"] = FirstBurst
  /\ pc["main"] \in {"echo", "settle"} => written \/ FirstBurst = <<>>
  /\ pc["main"] = "mix" => written \/ (FirstBurst = <<>> /\ todo["main"] = SecondBurst)
  /\ pc["main"] \in {"listen", "refresh", "top", "recv", "judge"}
       => written \/ (FirstBurst = <<>> /\ SecondBurst = <<>>)

\* An outcome is the last thing, and the whole plan goes out.
SwitchInv ==
  /\ WhatIsOut
  /\ skip["main"] = {}
  /\ outcome # "none" => pc["main"] = "exit"
  /\ outcome = "refused" => ~written
  /\ outcome \in APPLIED => written \/ (FirstBurst = <<>> /\ SecondBurst = <<>>)

LEMMA SwitchInvInit == SwitchInit => SwitchInv
<1>. SUFFICES ASSUME SwitchInit PROVE SwitchInv
  OBVIOUS
<1>1. pc["main"] = "boot" /\ skip["main"] = {} /\ outcome = "none" /\ ~written
  BY DEF SwitchInit, Thread
<1>. QED
  BY <1>1 DEF SwitchInv, WhatIsOut, APPLIED

LEMMA SwitchInvApply ==
  ASSUME SwitchTypeOK, SwitchInv, Apply("main"), Delegated
  PROVE  SwitchInv'
<1>. "main" \in Thread
  BY DEF Thread
<1>. USE DEF SwitchInv, WhatIsOut, SwitchTypeOK, TypeOK, ThreadTypeOK, APPLIED, Delegated,
             FirstBurst, SecondBurst, Writing
<1>1. CASE SendNext("main")
  BY <1>1 DEF SendNext
<1>2. CASE ReachBarrier("main")
  BY <1>2 DEF ReachBarrier, MixBurst, Burst, Goto, Bind
<1>3. CASE HearEcho("main")
  <2>1. CASE pending'["main"] = {}
    BY <1>3, <2>1 DEF HearEcho, MixBurst, Burst, Goto
  <2>2. CASE pending'["main"] # {}
    BY <1>3, <2>2 DEF HearEcho
  <2>. QED
    BY <2>1, <2>2
<1>4. CASE EchoTimeout("main")
  BY <1>4 DEF EchoTimeout, MixBurst, Burst, Goto
<1>5. CASE Settled("main")
  BY <1>5 DEF Settled, MixBurst, Burst, Goto
<1>. QED
  BY <1>1, <1>2, <1>3, <1>4, <1>5 DEF Apply

LEMMA SwitchInvWindow ==
  ASSUME SwitchTypeOK, SwitchInv, Window("main"), Delegated
  PROVE  SwitchInv'
<1>. "main" \in Thread
  BY DEF Thread
<1>. USE DEF SwitchInv, WhatIsOut, SwitchTypeOK, TypeOK, ThreadTypeOK, APPLIED, Delegated,
             FirstBurst, SecondBurst, Writing
<1>1. CASE Listen("main")
  BY <1>1 DEF Listen, Bind, Goto
<1>2. CASE RequestDump("main")
  BY <1>2 DEF RequestDump, Goto
<1>3. CASE AwaitReport("main")
  BY <1>3 DEF AwaitReport, Goto
<1>4. CASE NothingHeard("main")
  BY <1>4 DEF NothingHeard, Goto
<1>5. CASE HearReport("main")
  BY <1>5 DEF HearReport, Goto
<1>6. CASE CloseWindow("main")
  BY <1>6 DEF CloseWindow, Goto
<1>. QED
  BY <1>1, <1>2, <1>3, <1>4, <1>5, <1>6 DEF Window, WindowStopped, WindowComplete,
     WindowDeadline

LEMMA SwitchInvSays ==
  ASSUME SwitchTypeOK, SwitchInv,
         NEW what \in {"refused"} \union APPLIED, NEW missed, NEW blind,
         what = "refused" => ~written,
         what \in APPLIED => written \/ (FirstBurst = <<>> /\ SecondBurst = <<>>),
         Says(what, missed, blind), KeepsThreads, UNCHANGED <<deskVars, todo>>
  PROVE  SwitchInv'
<1>. "main" \in Thread
  BY DEF Thread
<1>1. pc'["main"] = "exit" /\ outcome' = what /\ written' = written
  BY DEF Says, Goto, SwitchTypeOK, TypeOK, ThreadTypeOK
<1>2. skip' = skip /\ cfg' = cfg
  BY DEF KeepsThreads
<1>. QED
  BY <1>1, <1>2 DEF SwitchInv, WhatIsOut, FirstBurst, SecondBurst, APPLIED

\* Whatever the session's verifier does, it does in its own thread.
LEMMA MainUntouched ==
  ASSUME SwitchTypeOK, VerifyStep
  PROVE  /\ pc'["main"] = pc["main"] /\ todo'["main"] = todo["main"]
         /\ skip'["main"] = skip["main"] /\ cfg' = cfg
<1>. USE DEF SwitchTypeOK, TypeOK, ThreadTypeOK, Thread
<1>1. CASE SendNext("verify")
  BY <1>1 DEF SendNext
<1>2. CASE ReachBarrier("verify")
  BY <1>2 DEF ReachBarrier, MixBurst, Burst, Goto, Bind
<1>3. CASE HearEcho("verify")
  BY <1>3 DEF HearEcho, MixBurst, Burst, Goto
<1>4. CASE EchoTimeout("verify")
  BY <1>4 DEF EchoTimeout, MixBurst, Burst, Goto
<1>5. CASE Settled("verify")
  BY <1>5 DEF Settled, MixBurst, Burst, Goto
<1>6. CASE Listen("verify")
  BY <1>6 DEF Listen, Bind, Goto
<1>7. CASE RequestDump("verify")
  BY <1>7 DEF RequestDump, Goto
<1>8. CASE AwaitReport("verify")
  BY <1>8 DEF AwaitReport, Goto
<1>9. CASE NothingHeard("verify")
  BY <1>9 DEF NothingHeard, Goto
<1>10. CASE HearReport("verify")
  BY <1>10 DEF HearReport, ObserveLinks, Burst, Goto
<1>11. CASE CloseWindow("verify")
  BY <1>11 DEF CloseWindow, Goto
<1>12. CASE SettlingEnds
  BY <1>12 DEF SettlingEnds, VerifierEnds, Goto
<1>13. CASE VerifyBlind
  BY <1>13 DEF VerifyBlind, VerifierEnds, Goto
<1>14. CASE BlindDelayEnds
  BY <1>14 DEF BlindDelayEnds, VerifierEnds, Burst, Goto
<1>15. CASE VerifyJudge
  BY <1>15 DEF VerifyJudge, ReapplyWithoutConfirmation, VerifierEnds, Burst, Goto
<1>16. CASE VerifyReport
  BY <1>16 DEF VerifyReport, StartApply, VerifierEnds, Burst, Goto
<1>17. CASE VerifyBurstOut
  BY <1>17 DEF VerifyBurstOut, VerifierEnds, Goto
<1>. QED
  BY <1>1, <1>2, <1>3, <1>4, <1>5, <1>6, <1>7, <1>8, <1>9, <1>10, <1>11, <1>12, <1>13,
     <1>14, <1>15, <1>16, <1>17
     DEF VerifyStep, Apply, Window, WindowStopped, WindowComplete, WindowDeadline

LEMMA SwitchInvStep == SwitchTypeOK /\ SwitchInv /\ [SwitchNext]_allVars => SwitchInv'
<1>. SUFFICES ASSUME SwitchTypeOK, SwitchInv, [SwitchNext]_allVars PROVE SwitchInv'
  OBVIOUS
<1>. "main" \in Thread
  BY DEF Thread
<1>0. ThreadTypeOK
  BY DEF SwitchTypeOK, TypeOK
<1>1. CASE Refused
  <2>1. Says("refused", {}, {}) /\ KeepsThreads /\ UNCHANGED <<deskVars, todo>>
    BY <1>1 DEF Refused
  <2>2. ~written
    BY <1>1 DEF Refused, SwitchInv, WhatIsOut
  <2>. QED
    BY <2>1, <2>2, SwitchInvSays DEF APPLIED
<1>2. CASE Writes
  BY <1>0, <1>2 DEF Writes, StartApply, Burst, Goto, SwitchInv, WhatIsOut, ThreadTypeOK,
                    switchVars, FirstBurst, SecondBurst, APPLIED
<1>3. CASE ApplyIsOut
  <2>1. written \/ (FirstBurst = <<>> /\ SecondBurst = <<>>)
    BY <1>3 DEF ApplyIsOut, SwitchInv, WhatIsOut
  <2>2. CASE asks
    <3>1. Goto("main", "listen") /\ KeepsThreads /\ UNCHANGED switchVars
      BY <1>3, <2>2 DEF ApplyIsOut
    <3>. QED
      BY <1>0, <1>3, <2>1, <3>1 DEF ApplyIsOut, Goto, KeepsThreads, SwitchInv, WhatIsOut,
                    ThreadTypeOK, switchVars, FirstBurst, SecondBurst, APPLIED
  <2>3. CASE ~asks
    <3>1. Says("applied-unverified", Registers("main"), {}) /\ KeepsThreads
          /\ UNCHANGED <<deskVars, todo>>
      BY <1>3, <2>3 DEF ApplyIsOut
    <3>. QED
      BY <2>1, <3>1, SwitchInvSays DEF APPLIED
  <2>. QED
    BY <2>2, <2>3
<1>4. CASE CannotListen
  <2>1. Says("applied-unverified", Registers("main"), {}) /\ KeepsThreads
        /\ UNCHANGED <<deskVars, todo>>
    BY <1>4 DEF CannotListen
  <2>2. written \/ (FirstBurst = <<>> /\ SecondBurst = <<>>)
    BY <1>4 DEF CannotListen, SwitchInv, WhatIsOut
  <2>. QED
    BY <2>1, <2>2, SwitchInvSays DEF APPLIED
<1>5. CASE Judged
  <2>1. PICK what \in APPLIED, missed \in SUBSET Reg, blind \in SUBSET Reg :
          Says(what, missed, blind)
    <3>. DEFINE missed == Registers("main") \ confirmed["main"]
                blind  == {r \in missed : ~RegisterEverReported(r)}
    <3>1. missed \in SUBSET Reg /\ blind \in SUBSET Reg
      BY <1>0, BurstsTyped
    <3>2. Says("applied-verified", {}, {}) \/ Says("applied-unverified", missed, blind)
      BY <1>5 DEF Judged
    <3>. HIDE DEF missed, blind
    <3>. QED
      BY <3>1, <3>2 DEF APPLIED
  <2>2. written \/ (FirstBurst = <<>> /\ SecondBurst = <<>>)
    BY <1>5 DEF Judged, SwitchInv, WhatIsOut
  <2>3. KeepsThreads /\ UNCHANGED <<deskVars, todo>>
    BY <1>5 DEF Judged
  <2>. QED
    BY <2>1, <2>2, <2>3, SwitchInvSays DEF APPLIED
<1>6. CASE Delegated
  BY <1>6, SwitchInvApply, SwitchInvWindow DEF Delegated
<1>7. CASE Environment /\ Quietly
  BY <1>7 DEF Quietly, threadVars, switchVars, SwitchInv, WhatIsOut, FirstBurst, SecondBurst
<1>8. CASE UNCHANGED allVars
  BY <1>8 DEF allVars, vars, threadVars, switchVars, SwitchInv, WhatIsOut, FirstBurst, SecondBurst
<1>9. CASE VerifyStep /\ UNCHANGED switchVars
  BY <1>9, MainUntouched DEF switchVars, SwitchInv, WhatIsOut, FirstBurst, SecondBurst
<1>. QED
  BY <1>1, <1>2, <1>3, <1>4, <1>5, <1>6, <1>7, <1>8, <1>9 DEF SwitchNext, SwitchStep

\* "Refused" means that not one datagram was sent, and "applied" that both
\* bursts were gone through: if the profile asks for anything, it was sent.
THEOREM OutcomeIsTrue == SwitchSpec => []OutcomeSaysWhatWasWritten
<1>1. SwitchInit => SwitchTypeOK /\ SwitchInv
  BY SwitchTypeInit, SwitchInvInit
<1>2. SwitchTypeOK /\ SwitchInv /\ [SwitchNext]_allVars => (SwitchTypeOK /\ SwitchInv)'
  BY SwitchTypeStep, SwitchInvStep
<1>3. SwitchTypeOK /\ SwitchInv => OutcomeSaysWhatWasWritten
  <2>. SUFFICES ASSUME SwitchTypeOK, SwitchInv PROVE OutcomeSaysWhatWasWritten
    OBVIOUS
  <2>1. cfg["main"] \in Configs
    BY DEF SwitchTypeOK, TypeOK, ThreadTypeOK, Thread
  <2>. QED
    BY <2>1, PlansAreSent DEF OutcomeSaysWhatWasWritten, SwitchInv, FirstBurst, SecondBurst
<1>. QED
  BY <1>1, <1>2, <1>3, PTL DEF SwitchSpec

----------------------------------------------------------------------------
(* What a switch has missed: where a read register stands when it is       *)
(* confirmed, whatever a session's verifier and a hand do beside it.       *)

\* A message about no cell, of the profile with configuration c.
Told(c) == {m \in WantedOf[c] : m.reg[1] # "mix"}

\* It is at the device, or somebody else has changed it since.
StillSo(m) == dev[m.reg] = m.args \/ m.reg \in moved["main"]

\* What was reported, or confirmed from a report, still is so.
MissInv(c) ==
  /\ cfg["main"] = c
  /\ \A i \in 1 .. Len(todo["main"]) : todo["main"][i] \in Plan(c)
  /\ \A m \in UnderWay : m.reg[1] # "mix"
  /\ \A r \in ToSet(dump) \union confirmed["main"] : r[1] # "mix"
  /\ \A m \in Told(c) : m \in UnderWay \/ m.reg \in confirmed["main"] => StillSo(m)
  /\ pc["main"] = "refresh" => confirmed["main"] = {}
  /\ outcome \in APPLIED => RegistersOf[c] \subseteq confirmed["main"] \union unverified

Missed == \E c \in Startups : MissInv(c)

LEMMA DeskInSwitch ==
  ASSUME [SwitchNext]_allVars
  PROVE  DeskChange
<1>. "main" \in Thread
  BY DEF Thread
<1>1. CASE Delegated
  BY <1>1, DeskInApply, DeskInWindow DEF Delegated
<1>2. CASE VerifyStep \/ Environment
  BY <1>2, DeskInVerifier, DeskInEnvironment
<1>3. CASE UNCHANGED deskVars
  BY <1>3 DEF deskVars, DeskChange, ControlStep, KeepsReports
<1>4. CASE UNCHANGED allVars
  BY <1>3, <1>4 DEF allVars, vars
<1>5. CASE Refused \/ Writes \/ ApplyIsOut \/ CannotListen \/ Judged
  BY <1>3, <1>5 DEF Refused, Writes, ApplyIsOut, CannotListen, Judged
<1>. QED
  BY <1>1, <1>2, <1>4, <1>5 DEF SwitchNext, SwitchStep

\* What the process does to its own burst and to what it has confirmed, and
\* what it misses.
WindowSees ==
  \/ confirmed'["main"] = confirmed["main"] /\ (pc'["main"] = "refresh" => pc["main"] = "refresh")
  \/ confirmed'["main"] = {} /\ pc["main"] = "listen"
  \/ /\ pc["main"] = "recv" /\ pc'["main"] = "top"
     /\ inbox # <<>> /\ Head(inbox) \in WantedOf[cfg["main"]]
     /\ confirmed'["main"] = confirmed["main"] \union {Head(inbox).reg}

MissesNone ==
  \/ moved["main"] \subseteq moved'["main"]
  \/ /\ pc["main"] = "refresh" /\ wire' = <<>> /\ inbox' = <<>>
     /\ confirmed'["main"] = confirmed["main"]

OthersAreSeen ==
  \A r \in Reg : RegisterEverReported(r) /\ dev'[r] # dev[r] =>
    \/ r \in moved'["main"]
    \/ Sends("main") /\ dev' = Written(Head(todo["main"]))

OwnChange ==
  /\ cfg'["main"] = cfg["main"] /\ TodoChange("main")
  /\ WindowSees /\ MissesNone /\ OthersAreSeen

LEMMA OwnInApply ==
  ASSUME TypeOK, Apply("main")
  PROVE  OwnChange
<1>. "main" \in Thread
  BY DEF Thread
<1>. USE DEF TypeOK, ThreadTypeOK, OwnChange, TodoChange, WindowSees, MissesNone, OthersAreSeen
<1>1. CASE SendNext("main")
  <2>1. moved'["main"] = moved["main"] /\ pc["main"] # "refresh"
    BY <1>1 DEF SendNext, MovedBy, Writing
  <2>2. Sends("main") /\ (dev' = dev \/ dev' = Written(Head(todo["main"])))
    BY <1>1 DEF SendNext, Sends, PutRegister
  <2>. QED
    BY <1>1, <2>1, <2>2 DEF SendNext
<1>2. CASE ReachBarrier("main")
  BY <1>2, BurstsKnown DEF ReachBarrier, MixBurst, Burst, Goto, Bind, history
<1>3. CASE HearEcho("main")
  BY <1>3, BurstsKnown DEF HearEcho, MixBurst, Burst, Goto, history
<1>4. CASE EchoTimeout("main")
  BY <1>4, BurstsKnown DEF EchoTimeout, MixBurst, Burst, Goto, history
<1>5. CASE Settled("main")
  BY <1>5, BurstsKnown DEF Settled, MixBurst, Burst, Goto, history, deskVars
<1>. QED
  BY <1>1, <1>2, <1>3, <1>4, <1>5 DEF Apply

LEMMA OwnInWindow ==
  ASSUME TypeOK, Window("main")
  PROVE  OwnChange
<1>. "main" \in Thread
  BY DEF Thread
<1>. USE DEF TypeOK, ThreadTypeOK, OwnChange, TodoChange, WindowSees, MissesNone, OthersAreSeen
<1>1. CASE Listen("main")
  BY <1>1 DEF Listen, Bind, Goto, history
<1>2. CASE RequestDump("main")
  <2>1. /\ dev' = dev /\ wire' = wire /\ inbox' = inbox /\ pc'["main"] = "top"
        /\ cfg' = cfg /\ todo' = todo /\ confirmed' = confirmed /\ pc["main"] = "refresh"
    BY <1>2 DEF RequestDump, PutRefresh, Goto
  <2>2. moved'["main"] = moved["main"] \/ (wire = <<>> /\ inbox = <<>>)
    BY <1>2 DEF RequestDump, HistoryTypeOK
  <2>. QED
    BY <2>1, <2>2
<1>3. CASE AwaitReport("main")
  BY <1>3 DEF AwaitReport, Goto, deskVars, history
<1>4. CASE NothingHeard("main")
  BY <1>4 DEF NothingHeard, Goto, deskVars, history
<1>5. CASE HearReport("main")
  BY <1>5 DEF HearReport, Goto, Absorb, history
<1>6. CASE CloseWindow("main")
  BY <1>6 DEF CloseWindow, Goto, history
<1>. QED
  BY <1>1, <1>2, <1>3, <1>4, <1>5, <1>6 DEF Window, WindowStopped, WindowComplete,
     WindowDeadline

\* The verifier works in its own thread, and is noticed.
LEMMA OwnInVerifier ==
  ASSUME SwitchTypeOK, VerifyStep
  PROVE  OwnChange
<1>. USE DEF SwitchTypeOK, TypeOK, ThreadTypeOK, HistoryTypeOK, Thread
<1>1. todo'["main"] = todo["main"] /\ pc'["main"] = pc["main"] /\ cfg' = cfg
  BY MainUntouched
<1>2. confirmed'["main"] = confirmed["main"]
  <2>1. CASE Apply("verify")
    BY <2>1 DEF Apply, SendNext, ReachBarrier, HearEcho, EchoTimeout, Settled
  <2>2. CASE Listen("verify") \/ RequestDump("verify") \/ AwaitReport("verify")
             \/ NothingHeard("verify") \/ CloseWindow("verify")
    BY <2>2 DEF Listen, RequestDump, AwaitReport, NothingHeard, CloseWindow
  <2>3. CASE HearReport("verify")
    BY <2>3 DEF HearReport, Absorb
  <2>4. CASE SettlingEnds \/ VerifyBlind \/ BlindDelayEnds \/ VerifyJudge \/ VerifyReport
             \/ VerifyBurstOut
    BY <2>4 DEF SettlingEnds, VerifyBlind, BlindDelayEnds, VerifyJudge, VerifyReport,
                VerifyBurstOut
  <2>. QED
    BY <2>1, <2>2, <2>3, <2>4
       DEF VerifyStep, Window, WindowStopped, WindowComplete, WindowDeadline
<1>3. CASE SendNext("verify")
  <2>1. moved'["main"] = moved["main"]
          \union {r \in Reg : RegisterEverReported(r) /\ dev'[r] # dev[r]}
    BY <1>3 DEF SendNext, MovedBy
  <2>. QED
    BY <1>1, <1>2, <2>1 DEF OwnChange, TodoChange, WindowSees, MissesNone, OthersAreSeen
<1>4. CASE ~SendNext("verify")
  <2>1. moved'["main"] = moved["main"]
    <3>1. CASE Apply("verify")
      BY <1>4, <3>1 DEF Apply, ReachBarrier, HearEcho, EchoTimeout, Settled, history
    <3>2. CASE Listen("verify") \/ RequestDump("verify") \/ AwaitReport("verify")
               \/ NothingHeard("verify") \/ CloseWindow("verify") \/ HearReport("verify")
      BY <3>2 DEF Listen, RequestDump, AwaitReport, NothingHeard, CloseWindow, HearReport,
                  history
    <3>3. CASE SettlingEnds \/ VerifyBlind \/ BlindDelayEnds \/ VerifyJudge \/ VerifyReport
               \/ VerifyBurstOut
      BY <3>3 DEF SettlingEnds, VerifyBlind, BlindDelayEnds, VerifyJudge, VerifyReport,
                  VerifyBurstOut, history
    <3>. QED
      BY <3>1, <3>2, <3>3
         DEF VerifyStep, Window, WindowStopped, WindowComplete, WindowDeadline
  <2>2. dev' = dev
    <3>1. CASE Apply("verify")
      BY <1>4, <3>1 DEF Apply, ReachBarrier, HearEcho, EchoTimeout, Settled, deskVars
    <3>2. CASE Listen("verify") \/ RequestDump("verify") \/ AwaitReport("verify")
               \/ NothingHeard("verify") \/ CloseWindow("verify") \/ HearReport("verify")
      BY <3>2 DEF Listen, RequestDump, AwaitReport, NothingHeard, CloseWindow, HearReport,
                  PutRefresh, deskVars
    <3>3. CASE SettlingEnds \/ VerifyBlind \/ BlindDelayEnds \/ VerifyJudge \/ VerifyReport
               \/ VerifyBurstOut
      BY <3>3 DEF SettlingEnds, VerifyBlind, BlindDelayEnds, VerifyJudge, VerifyReport,
                  VerifyBurstOut, deskVars, PutRefresh
    <3>. QED
      BY <3>1, <3>2, <3>3
         DEF VerifyStep, Window, WindowStopped, WindowComplete, WindowDeadline
  <2>. QED
    BY <1>1, <1>2, <2>1, <2>2 DEF OwnChange, TodoChange, WindowSees, MissesNone, OthersAreSeen
<1>. QED
  BY <1>3, <1>4

LEMMA OwnInSwitch ==
  ASSUME SwitchTypeOK, [SwitchNext]_allVars
  PROVE  OwnChange
<1>. "main" \in Thread
  BY DEF Thread
<1>. TypeOK
  BY DEF SwitchTypeOK
<1>1. CASE Delegated
  BY <1>1, OwnInApply, OwnInWindow DEF Delegated
<1>2. CASE VerifyStep
  BY <1>2, OwnInVerifier
<1>. USE DEF TypeOK, ThreadTypeOK, OwnChange, TodoChange, WindowSees, MissesNone, OthersAreSeen
<1>3. CASE Hand /\ Quietly
  <2>1. moved'["main"] = moved["main"]
          \union {r \in Reg : RegisterEverReported(r) /\ dev'[r] # dev[r]}
    BY <1>3 DEF Hand, MovedBy
  <2>. QED
    BY <1>3, <2>1 DEF Quietly, threadVars
<1>4. CASE Environment /\ Quietly /\ ~Hand
  <2>1. dev' = dev /\ moved' = moved
    BY <1>4 DEF Environment, DeskStep, DumpNext, Deliver, BackendBinds, BackendDies,
                GuiOpens, GuiCloses, history
  <2>. QED
    BY <1>4, <2>1 DEF Quietly, threadVars
<1>5. CASE UNCHANGED allVars
  BY <1>5 DEF allVars, vars, deskVars, threadVars, history
<1>6. CASE Writes
  <2>1. todo'["main"] \in BurstsOf(cfg["main"]) /\ pc'["main"] = "links"
    BY <1>6, BurstsKnown, {} \in SUBSET Reg DEF Writes, StartApply, Burst, Goto
  <2>. QED
    BY <1>6, <2>1 DEF Writes, deskVars, history
<1>7. CASE Refused \/ ApplyIsOut \/ CannotListen \/ Judged
  <2>1. KeepsThreads /\ UNCHANGED <<deskVars, todo>>
    BY <1>7 DEF Refused, ApplyIsOut, CannotListen, Judged
  <2>2. pc'["main"] \in {"exit", "listen"}
    BY <1>7 DEF Refused, ApplyIsOut, CannotListen, Judged, Says, Goto
  <2>. QED
    BY <2>1, <2>2 DEF KeepsThreads, deskVars, history
<1>. QED
  BY <1>1, <1>2, <1>3, <1>4, <1>5, <1>6, <1>7 DEF SwitchNext, SwitchStep

\* The plan of a profile never takes back what the profile says.
LEMMA StillSoStep ==
  ASSUME SwitchTypeOK, NEW c \in Startups, MissInv(c), SaysOneThing, OwnChange,
         moved["main"] \subseteq moved'["main"], NEW m \in Told(c), StillSo(m)
  PROVE  StillSo(m)'
<1>. "main" \in Thread /\ c \in Configs /\ TypeOK
  BY DEF Thread, Configs, SwitchTypeOK
<1>0. m \in WantedOf[c] /\ m.reg[1] # "mix" /\ m.reg \in Reg
  BY PlansAreTyped, BurstsOfRoutes DEF Told
<1>1. RegisterEverReported(m.reg)
  BY <1>0 DEF RegisterEverReported, IsPlaybackMix
<1>2. CASE Sends("main") /\ dev' = Written(Head(todo["main"]))
  <2>1. todo["main"] # <<>>
    BY <1>2 DEF Sends
  <2>2. Head(todo["main"]) \in Sendable /\ Head(todo["main"]) \in Plan(c)
    BY <2>1, SentIsSendable DEF MissInv
  <2>3. Head(todo["main"]).reg = m.reg => Head(todo["main"]) = m
    BY <1>0, <2>2 DEF SaysOneThing
  <2>4. Written(Head(todo["main"]))[m.reg]
          = IF Head(todo["main"]).reg = m.reg THEN Head(todo["main"]).args ELSE dev[m.reg]
    BY <1>0, <2>2, NoCellWritten DEF TypeOK
  <2>. QED
    BY <1>2, <2>3, <2>4 DEF StillSo
<1>3. CASE m.reg \in moved'["main"] \/ dev'[m.reg] = dev[m.reg]
  BY <1>3 DEF StillSo
<1>. QED
  BY <1>0, <1>1, <1>2, <1>3 DEF OwnChange, OthersAreSeen

LEMMA MissOutcome ==
  ASSUME SwitchTypeOK, SwitchInv, NEW c \in Startups, MissInv(c), [SwitchNext]_allVars,
         outcome' \in APPLIED
  PROVE  RegistersOf[c] \subseteq confirmed'["main"] \union unverified'
<1>. OwnChange
  BY OwnInSwitch
<1>1. CASE UNCHANGED <<outcome, unverified>>
  <2>1. pc["main"] = "exit"
    BY <1>1 DEF SwitchInv, APPLIED
  <2>. QED
    BY <1>1, <2>1 DEF MissInv, OwnChange, WindowSees
<1>2. CASE Refused
  BY <1>2 DEF Refused, Says, APPLIED
<1>3. CASE ApplyIsOut \/ CannotListen
  <2>. SUFFICES ASSUME ~UNCHANGED <<outcome, unverified>>
                PROVE  unverified' = RegistersOf[c]
    BY <1>1
  <2>. QED
    BY <1>3 DEF ApplyIsOut, CannotListen, Says, switchVars, Registers, MissInv
<1>4. CASE Judged
  <2>1. confirmed' = confirmed
    BY <1>4 DEF Judged, KeepsThreads
  <2>2. RegistersOf[c] \ confirmed["main"] \subseteq unverified'
    BY <1>4 DEF Judged, Says, Registers, MissInv
  <2>. QED
    BY <2>1, <2>2
<1>5. CASE Writes \/ Delegated
  BY <1>1, <1>5 DEF Writes, Delegated, switchVars
<1>6. CASE VerifyStep /\ UNCHANGED switchVars
  BY <1>1, <1>6 DEF switchVars
<1>7. CASE Environment /\ Quietly
  BY <1>1, <1>7 DEF Quietly, switchVars
<1>8. CASE UNCHANGED allVars
  BY <1>1, <1>8 DEF allVars, switchVars
<1>. QED
  BY <1>2, <1>3, <1>4, <1>5, <1>6, <1>7, <1>8 DEF SwitchNext, SwitchStep

LEMMA MissStep ==
  ASSUME SwitchTypeOK, SwitchInv, NEW c \in Startups, MissInv(c), SaysOneThing,
         [SwitchNext]_allVars
  PROVE  MissInv(c)'
<1>. /\ "main" \in Thread /\ c \in Configs /\ TypeOK /\ DeskTypeOK
     /\ DeskChange /\ OwnChange
  BY DeskInSwitch, OwnInSwitch DEF Thread, Configs, SwitchTypeOK, TypeOK
<1>1. cfg'["main"] = c
  BY DEF MissInv, OwnChange
<1>2. ASSUME NEW i \in 1 .. Len(todo'["main"])
      PROVE  todo'["main"][i] \in Plan(c)
  <2>0. todo["main"] \in Seq(Sendable)
    BY DEF TypeOK, ThreadTypeOK
  <2>1. CASE todo'["main"] = todo["main"]
    BY <1>2, <2>1 DEF MissInv
  <2>2. CASE todo["main"] # <<>> /\ todo'["main"] = Tail(todo["main"])
    <3>1. i + 1 \in 1 .. Len(todo["main"]) /\ todo'["main"][i] = todo["main"][i + 1]
      BY <1>2, <2>0, <2>2
    <3>. QED
      BY <3>1 DEF MissInv
  <2>3. CASE todo'["main"] \in BurstsOf(cfg["main"])
    BY <1>2, <2>3, BurstsArePlanned DEF MissInv
  <2>. QED
    BY <2>1, <2>2, <2>3 DEF OwnChange, TodoChange
<1>3. \A m \in UnderWay' : m.reg[1] # "mix"
  BY ReportsAreTrue DEF MissInv, LinkRegs, Reason
<1>4. ASSUME inbox # <<>>
      PROVE  Head(inbox) \in UnderWay
  BY <1>4 DEF UnderWay, DeskTypeOK, ToSet
<1>5. \A r \in ToSet(dump') \union confirmed'["main"] : r[1] # "mix"
  <2>1. \A r \in ToSet(dump') : r[1] # "mix"
    BY DumpShrinks DEF MissInv, SaysOneThing
  <2>2. \A r \in confirmed'["main"] : r[1] # "mix"
    BY <1>4 DEF MissInv, OwnChange, WindowSees
  <2>. QED
    BY <2>1, <2>2
<1>6. ASSUME NEW m \in Told(c), m \in UnderWay' \/ m.reg \in confirmed'["main"]
      PROVE  StillSo(m)'
  <2>0. m \in WantedOf[c] /\ m.reg[1] # "mix"
    BY DEF Told
  <2>1. CASE m \in UnderWay' /\ m \notin UnderWay
    BY <2>1, ReportsAreTrue DEF StillSo
  <2>2. CASE m \in UnderWay \/ m.reg \in confirmed'["main"]
    <3>1. CASE moved["main"] \subseteq moved'["main"]
      <4>1. StillSo(m)
        <5>1. CASE m \in UnderWay \/ m.reg \in confirmed["main"]
          BY <5>1 DEF MissInv
        <5>2. CASE m.reg \notin confirmed["main"] /\ m.reg \in confirmed'["main"]
          <6>1. /\ inbox # <<>> /\ Head(inbox) \in WantedOf[c] /\ Head(inbox).reg = m.reg
            BY <5>2 DEF OwnChange, WindowSees, MissInv
          <6>2. m \in Plan(c)
            BY <2>0, BurstsOfRoutes DEF Plan
          <6>3. m = Head(inbox)
            <7>1. Head(inbox).reg[1] # "mix"
              BY <2>0, <6>1
            <7>. QED
              BY <6>1, <6>2, <7>1 DEF SaysOneThing
          <6>. QED
            BY <1>4, <5>1, <6>1, <6>3
        <5>. QED
          BY <2>2, <5>1, <5>2
      <4>. QED
        BY <3>1, <4>1, StillSoStep
    <3>2. CASE /\ pc["main"] = "refresh" /\ wire' = <<>> /\ inbox' = <<>>
               /\ confirmed'["main"] = confirmed["main"]
      <4>1. UnderWay' = {} /\ confirmed'["main"] = {}
        BY <3>2 DEF UnderWay, ToSet, MissInv
      <4>. QED
        BY <1>6, <4>1
    <3>. QED
      BY <3>1, <3>2 DEF OwnChange, MissesNone
  <2>. QED
    BY <1>6, <2>1, <2>2
<1>7. pc'["main"] = "refresh" => confirmed'["main"] = {}
  BY DEF MissInv, OwnChange, WindowSees
<1>8. outcome' \in APPLIED => RegistersOf[c] \subseteq confirmed'["main"] \union unverified'
  BY MissOutcome
<1>. QED
  BY <1>1, <1>2, <1>3, <1>5, <1>6, <1>7, <1>8 DEF MissInv

LEMMA MissInit == SwitchInit => Missed
<1>. SUFFICES ASSUME SwitchInit PROVE Missed
  OBVIOUS
<1>1. PICK b \in Beginnings, c \in Startups :
        cfg = [t \in Thread |-> IF t = "main" \/ b.session = NoSession THEN c ELSE b.session]
  BY DEF SwitchInit
<1>2. /\ wire = <<>> /\ dump = <<>> /\ inbox = <<>> /\ outcome = "none"
      /\ todo["main"] = <<>> /\ confirmed["main"] = {} /\ pc["main"] = "boot"
  BY DEF SwitchInit, Thread
<1>3. cfg["main"] = c
  BY <1>1 DEF Thread
<1>4. UnderWay = {} /\ ToSet(dump) = {}
  BY <1>2 DEF UnderWay, ToSet
<1>. QED
  BY <1>2, <1>3, <1>4 DEF Missed, MissInv, APPLIED

\* Of a profile that says one thing about each register, and a device that does
\* not report its mix cells, every register that is not at the device as the
\* profile says is in the list of the outcome, or has been changed by somebody
\* else since the dump was asked for.
THEOREM EveryMissIsFound == SaysOneThing => (SwitchSpec => []EveryMissIsNamed)
<1>. SUFFICES ASSUME SaysOneThing PROVE SwitchSpec => []EveryMissIsNamed
  OBVIOUS
<1>. DEFINE Inv == SwitchTypeOK /\ SwitchInv /\ Missed
<1>1. SwitchInit => Inv
  BY SwitchTypeInit, SwitchInvInit, MissInit
<1>2. Inv /\ [SwitchNext]_allVars => Inv'
  <2>. SUFFICES ASSUME Inv, [SwitchNext]_allVars PROVE Inv'
    OBVIOUS
  <2>1. SwitchTypeOK' /\ SwitchInv'
    BY SwitchTypeStep, SwitchInvStep
  <2>2. PICK c \in Startups : MissInv(c)
    BY DEF Missed
  <2>3. MissInv(c)'
    BY <2>2, MissStep
  <2>. QED
    BY <2>1, <2>3 DEF Missed
<1>3. Inv => EveryMissIsNamed
  <2>. SUFFICES ASSUME Inv, outcome \in APPLIED, NEW m \in WantedOf[cfg["main"]]
                PROVE  Holds(m) \/ m.reg \in unverified \union moved["main"]
    BY DEF EveryMissIsNamed
  <2>1. PICK c \in Startups : MissInv(c)
    BY DEF Missed
  <2>2. c \in Configs /\ m \in WantedOf[c]
    BY <2>1 DEF MissInv, Configs
  <2>3. m.reg \in confirmed["main"] \union unverified
    BY <2>1, <2>2, BurstsOfRoutes DEF MissInv
  <2>4. CASE m.reg \in confirmed["main"]
    <3>1. m \in Told(c)
      BY <2>1, <2>2, <2>4 DEF MissInv, Told
    <3>. QED
      BY <2>1, <2>4, <3>1 DEF MissInv, StillSo, Holds, Told
  <2>. QED
    BY <2>3, <2>4
<1>. HIDE DEF Inv
<1>. QED
  BY <1>1, <1>2, <1>3, PTL DEF SwitchSpec

----------------------------------------------------------------------------
(* Both sides of every pair: what a switch knows of the links it waits for,*)
(* alone with a device that loses nothing.                                 *)

Undisturbed == drops = 0 /\ child = "up" /\ known /\ Alone

Before == {"boot", "links", "echo", "settle"}

\* Both bursts have begun, and the last one may still be going out.
Through == pc["main"] \notin Before /\ outcome # "refused"

\* What is reported of a link is what it is, and nothing but the first burst
\* changes one.
LinksReported(c) ==
  /\ \A m \in UnderWay : m.reg \in LinkRegs =>
       /\ m.args = dev[m.reg]
       /\ pc["main"] \in {"boot", "links"} => m \in Plan(c)
  /\ \A r \in LinkRegs : view[r] = dev[r] \/ \E m \in ToSet(wire) : m.reg = r
  /\ \A m \in ToSet(inbox) : m.reg \in LinkRegs => view[m.reg] = m.args
  /\ pc["main"] \in {"boot", "links"} => dump = <<>>

\* Before the mix goes out oscmix has the links it is folded by.
LinksLearnt(c) ==
  /\ pc["main"] = "echo" => \A m \in AwaitedOf[c] \ pending["main"] : view[m.reg] = m.args
  /\ Through => \A m \in AwaitedOf[c] : view[m.reg] = m.args

LinksWritten(c) ==
  pc["main"] # "boot" /\ outcome # "refused" =>
    \A m \in Links(c) :
      dev[m.reg] = m.args \/ (pc["main"] = "links" /\ m \in ToSet(todo["main"]))

RoutesFed(c) ==
  Through =>
    \A route \in ToSet(c.routes) : \A out \in ToSet(route.output) :
      \/ Fed(route, out)
      \/ pc["main"] = "mix" /\ Feeder(route, out) \in ToSet(todo["main"])

HeardInv(c) ==
  /\ cfg["main"] = c /\ child # "starting"
  /\ \A i \in 1 .. Len(todo["main"]) : todo["main"][i] \in Plan(c)
  /\ Undisturbed =>
       LinksReported(c) /\ LinksLearnt(c) /\ LinksWritten(c) /\ RoutesFed(c)

Heard == \E c \in Startups : HeardInv(c)

----------------------------------------------------------------------------
(* How the process moves while it is alone.                                *)

\* A verifier that has never begun does not begin.
LEMMA NoVerifier ==
  ASSUME SwitchTypeOK, VerifyStep
  PROVE  pc["verify"] # "none" /\ pc'["verify"] # "none"
<1>. "verify" \in Thread
  BY DEF Thread
<1>. USE DEF SwitchTypeOK, TypeOK, ThreadTypeOK
<1>1. CASE Apply("verify")
  BY <1>1 DEF Apply, SendNext, ReachBarrier, HearEcho, EchoTimeout, Settled, MixBurst, Burst,
              Goto, Bind, Writing
<1>2. CASE Listen("verify") \/ RequestDump("verify") \/ AwaitReport("verify")
           \/ NothingHeard("verify") \/ CloseWindow("verify")
  BY <1>2 DEF Listen, Bind, RequestDump, AwaitReport, NothingHeard, CloseWindow, Goto
<1>3. CASE HearReport("verify")
  BY <1>3 DEF HearReport, ObserveLinks, Burst, Goto
<1>4. CASE SettlingEnds \/ VerifyBlind \/ BlindDelayEnds \/ VerifyJudge \/ VerifyReport
           \/ VerifyBurstOut
  BY <1>4 DEF SettlingEnds, VerifyBlind, BlindDelayEnds, VerifyJudge, VerifyReport,
              VerifyBurstOut, ReapplyWithoutConfirmation, StartApply, VerifierEnds, Burst, Goto
<1>. QED
  BY <1>1, <1>2, <1>3, <1>4 DEF VerifyStep, Window, WindowStopped, WindowComplete,
     WindowDeadline

Alike == /\ pc'["main"] = pc["main"] /\ todo'["main"] = todo["main"]
         /\ pending'["main"] = pending["main"]

\* The mix of c goes out.
ToMix(c) == pc'["main"] = "mix" /\ todo'["main"] = Without(MixesOf[c], {})

Behind == pc["main"] \notin Before \union {"mix"}

\* Links, barrier, mix, once, and then the read-back.
Course(c) ==
  \/ Alike
  \/ /\ Sends("main") /\ pc'["main"] = pc["main"] /\ todo'["main"] = Tail(todo["main"])
     /\ pending'["main"] = pending["main"]
  \/ /\ pc["main"] = "boot"
     /\ \/ pc'["main"] = "links" /\ todo'["main"] = Without(LinksOf[c], {})
        \/ pc'["main"] = "exit" /\ outcome' = "refused"
  \/ /\ pc["main"] = "links" /\ todo["main"] = <<>>
     /\ \/ pc'["main"] \in {"echo", "settle"} /\ pending'["main"] = AwaitedOf[c]
        \/ AwaitedOf[c] = {} /\ ToMix(c)
  \/ /\ pc["main"] = "echo" /\ inbox # <<>>
     /\ pending'["main"] = pending["main"] \ {Head(inbox)}
     /\ \/ pc'["main"] = "echo"
        \/ pending'["main"] = {} /\ ToMix(c)
  \/ pc["main"] \in {"echo", "settle"} /\ DeadlineFor(LinkRegs) /\ ToMix(c)
  \/ ((pc["main"] = "mix" /\ todo["main"] = <<>>) \/ Behind) /\ Behind'

\* Nothing is taken back: a loss, a refusal, a death; and only the window
\* asks for a dump.
Onward ==
  /\ drops' \in {drops, drops + 1} /\ known' = known
  /\ outcome = "refused" => outcome' = "refused"
  /\ pc["verify"] # "none" => pc'["verify"] # "none"
  /\ dump' # <<>> => dump # <<>> \/ pc["main"] = "refresh" \/ pc["verify"] # "none"

LEMMA CourseOfApply ==
  ASSUME SwitchTypeOK, SwitchInv, NEW c, cfg["main"] = c, ~Garbled, Apply("main")
  PROVE  Course(c) /\ drops' \in {drops, drops + 1} /\ dump' = dump /\ pc'["verify"] = pc["verify"]
<1>. "main" \in Thread /\ "verify" \in Thread /\ "verify" # "main" /\ skip["main"] = {}
  BY DEF Thread, SwitchInv
<1>. USE DEF SwitchTypeOK, TypeOK, ThreadTypeOK, Course, ToMix
<1>1. CASE SendNext("main")
  BY <1>1 DEF SendNext, Sends, PutRegister, MayLose
<1>2. CASE ReachBarrier("main")
  <2>1. /\ pc["main"] = "links" /\ todo["main"] = <<>> /\ pending'["main"] = AwaitedOf[c]
        /\ UNCHANGED <<drops, dump>>
    BY <1>2 DEF ReachBarrier
  <2>2. \/ AwaitedOf[c] = {} /\ Burst("main", "mix", Without(MixesOf[c], {}))
        \/ Goto("main", "echo") \/ Goto("main", "settle")
    BY <1>2 DEF ReachBarrier, MixBurst, Bind
  <2>3. /\ \/ pc'["main"] \in {"echo", "settle"}
           \/ AwaitedOf[c] = {} /\ ToMix(c)
        /\ pc'["verify"] = pc["verify"]
    BY <2>2 DEF Burst, Goto
  <2>. QED
    BY <2>1, <2>3
<1>3. CASE HearEcho("main")
  <2>1. /\ pc["main"] = "echo" /\ inbox # <<>>
        /\ pending'["main"] = pending["main"] \ {Head(inbox)} /\ UNCHANGED <<drops, dump>>
    BY <1>3 DEF HearEcho
  <2>2. CASE pending'["main"] = {}
    <3>1. Burst("main", "mix", Without(MixesOf[cfg["main"]], skip["main"]))
      BY <1>3, <2>2 DEF HearEcho, MixBurst
    <3>2. ToMix(c) /\ pc'["verify"] = pc["verify"]
      BY <3>1 DEF Burst, Goto
    <3>. QED
      BY <2>1, <2>2, <3>2
  <2>3. CASE pending'["main"] # {}
    <3>1. pc' = pc
      BY <1>3, <2>3 DEF HearEcho
    <3>. QED
      BY <2>1, <3>1
  <2>. QED
    BY <2>2, <2>3
<1>4. CASE EchoTimeout("main")
  BY <1>4 DEF EchoTimeout, MixBurst, Burst, Goto, BarrierOver
<1>5. CASE Settled("main")
  BY <1>5 DEF Settled, MixBurst, Burst, Goto, deskVars
<1>. QED
  BY <1>1, <1>2, <1>3, <1>4, <1>5 DEF Apply

LEMMA CourseOfWindow ==
  ASSUME SwitchTypeOK, NEW c, Window("main")
  PROVE  /\ Course(c) /\ drops' \in {drops, drops + 1} /\ pc'["verify"] = pc["verify"]
         /\ dump' = dump \/ pc["main"] = "refresh"
<1>. "main" \in Thread /\ "verify" \in Thread /\ "verify" # "main"
  BY DEF Thread
<1>. USE DEF SwitchTypeOK, TypeOK, ThreadTypeOK, Course, Behind, Before
<1>1. pc["main"] \in {"listen", "refresh", "top", "recv"}
  BY DEF Window, Listen, RequestDump, AwaitReport, NothingHeard, HearReport, WindowStopped,
         WindowComplete, WindowDeadline, CloseWindow
<1>2. \E label \in {"refresh", "top", "recv", "judge"} : Goto("main", label)
  BY DEF Window, Listen, Bind, RequestDump, AwaitReport, NothingHeard, HearReport,
         WindowStopped, WindowComplete, WindowDeadline, CloseWindow
<1>3. pc'["main"] \in {"refresh", "top", "recv", "judge"} /\ pc'["verify"] = pc["verify"]
  BY <1>2 DEF Goto
<1>4. drops' \in {drops, drops + 1} /\ (dump' = dump \/ pc["main"] = "refresh")
  BY DEF Window, Listen, RequestDump, PutRefresh, MayLose, AwaitReport, NothingHeard,
         HearReport, WindowStopped, WindowComplete, WindowDeadline, CloseWindow, deskVars
<1>. QED
  BY <1>1, <1>3, <1>4

LEMMA CourseInSwitch ==
  ASSUME SwitchTypeOK, SwitchInv, NEW c, cfg["main"] = c, ~Garbled, Alone', [SwitchNext]_allVars
  PROVE  Course(c) /\ Onward /\ Alone
<1>. "main" \in Thread /\ "verify" \in Thread /\ "verify" # "main"
  BY DEF Thread
<1>. USE DEF SwitchTypeOK, TypeOK, ThreadTypeOK
<1>1. CASE Delegated
  <2>1. /\ Course(c) /\ drops' \in {drops, drops + 1} /\ pc'["verify"] = pc["verify"]
        /\ dump' = dump \/ pc["main"] = "refresh"
    BY <1>1, CourseOfApply, CourseOfWindow DEF Delegated
  <2>. QED
    BY <1>1, <2>1 DEF Delegated, Onward, Alone
<1>2. CASE Writes
  BY <1>2 DEF Writes, StartApply, Burst, Goto, Course, Onward, Alone, switchVars, deskVars
<1>3. CASE Refused
  BY <1>3 DEF Refused, Says, Goto, Course, Onward, Alone, deskVars
<1>4. CASE ApplyIsOut \/ CannotListen \/ Judged
  <2>0. Goto("main", "listen") \/ Goto("main", "exit")
    BY <1>4 DEF ApplyIsOut, CannotListen, Judged, Says
  <2>1. /\ pc'["main"] \in {"listen", "exit"} /\ pc'["verify"] = pc["verify"]
    BY <2>0 DEF Goto
  <2>5. pc["main"] \in {"listen", "judge"} \/ (pc["main"] = "mix" /\ todo["main"] = <<>>)
    BY <1>4 DEF ApplyIsOut, CannotListen, Judged
  <2>2. Course(c)
    BY <2>1, <2>5 DEF Course, Behind, Before
  <2>3. UNCHANGED deskVars /\ known' = known
    BY <1>4 DEF ApplyIsOut, CannotListen, Judged, Says, switchVars
  <2>4. outcome # "refused"
    BY <2>5 DEF SwitchInv
  <2>. QED
    BY <2>1, <2>2, <2>3, <2>4 DEF Onward, Alone, deskVars
<1>5. CASE VerifyStep /\ UNCHANGED switchVars
  BY <1>5, NoVerifier DEF Alone
<1>6. CASE Environment /\ Quietly
  <2>1. Alike /\ pc' = pc
    BY <1>6 DEF Quietly, threadVars, Alike
  <2>2. known' = known /\ outcome' = outcome
    BY <1>6 DEF Quietly, switchVars
  <2>3. drops' \in {drops, drops + 1} /\ (dump' # <<>> => dump # <<>>)
    BY <1>6 DEF Environment, DeskStep, DumpNext, Deliver, BackendBinds, BackendDies, GuiOpens,
                GuiCloses, Hand, HandTurns, MayLose
  <2>4. Course(c)
    BY <2>1 DEF Course
  <2>. QED
    BY <2>1, <2>2, <2>3, <2>4 DEF Onward, Alone
<1>7. CASE UNCHANGED allVars
  BY <1>7 DEF allVars, vars, deskVars, threadVars, switchVars, Course, Alike, Onward, Alone
<1>. QED
  BY <1>1, <1>2, <1>3, <1>4, <1>5, <1>6, <1>7 DEF SwitchNext, SwitchStep

----------------------------------------------------------------------------
(* The links, as the device reports them and oscmix learns them.           *)

\* Nothing has happened so far, and nothing does in this step.
Calmly(c) ==
  /\ TypeOK /\ DeskChange /\ HandsOff /\ SendsOf(c) /\ Onward /\ Course(c)
  /\ Undisturbed /\ child' = "up"
  /\ pc["main"] \in Before => outcome # "refused"
  /\ \A t \in Thread : Sends(t) =>
       /\ t = "main" /\ pc["main"] \in {"links", "mix"} /\ outcome # "refused"
       /\ dev' = Written(Head(todo[t])) /\ wire' = Echoed(Head(todo[t]))

LEMMA StillCalm ==
  ASSUME SwitchTypeOK, SwitchInv, Untouched, NEW c \in Startups, HeardInv(c),
         [SwitchNext]_allVars, Undisturbed'
  PROVE  Calmly(c)
<1>. "main" \in Thread /\ TypeOK /\ DeskChange
  BY DeskInSwitch DEF Thread, SwitchTypeOK
<1>1. Course(c) /\ Onward /\ Alone
  BY CourseInSwitch DEF Untouched, HeardInv, Undisturbed
<1>2. drops = 0 /\ drops' = 0 /\ known
  BY <1>1 DEF Onward, Undisturbed, TypeOK, DeskTypeOK
<1>3. child = "up" /\ child' = "up"
  BY DEF DeskChange, ControlStep, KeepsReports, RefreshStep, PutRefresh, Sends, PutRegister,
         DumpNext, Deliver, BackendBinds, LosesBackend, HandTurns, HeardInv, Undisturbed
<1>4. ASSUME NEW t \in Thread, Sends(t)
      PROVE  /\ t = "main" /\ pc["main"] \in {"links", "mix"} /\ outcome # "refused"
             /\ dev' = Written(Head(todo[t])) /\ wire' = Echoed(Head(todo[t]))
  <2>1. t = "main"
    BY <1>1, <1>4 DEF Sends, Alone, Writing, Thread
  <2>2. pc["main"] \in {"links", "mix"}
    BY <1>4, <2>1 DEF Sends, Writing, SwitchInv, WhatIsOut
  <2>3. \A lost \in BOOLEAN : MayLose(lost) => ~lost
    BY <1>2 DEF MayLose
  <2>4. dev' = Written(Head(todo[t])) /\ wire' = Echoed(Head(todo[t]))
    BY <1>3, <1>4, <2>3 DEF Sends, PutRegister
  <2>. QED
    BY <2>1, <2>2, <2>4 DEF SwitchInv
<1>5. SendsOf(c)
  <2>. SUFFICES ASSUME NEW t \in Thread, Sends(t) PROVE Head(todo[t]) \in Plan(c)
    BY DEF SendsOf
  <2>1. t = "main" /\ todo[t] # <<>>
    BY <1>4 DEF Sends
  <2>. QED
    BY <2>1, SentIsSendable DEF HeardInv
<1>6. pc["main"] \in Before => outcome # "refused"
  BY DEF SwitchInv, Before
<1>. QED
  BY <1>1, <1>2, <1>3, <1>4, <1>5, <1>6 DEF Calmly, Undisturbed, Untouched

\* Only the first burst turns a link, and the device echoes it.
LEMMA LinkTurned ==
  ASSUME NEW c \in Configs, Wired(c), Calmly(c), LinksWritten(c), NEW r \in LinkRegs,
         dev'[r] # dev[r]
  PROVE  LET w == Head(todo["main"]) IN
         /\ Sends("main") /\ pc["main"] = "links" /\ w \in Links(c) /\ w.reg = r
         /\ dev'[r] = w.args /\ wire' = Append(wire, w)
<1>. DEFINE w == Head(todo["main"])
<1>0. r \in Reg /\ r[1] # "mix" /\ r[3] = "stereo" /\ TypeOK /\ DeskTypeOK /\ "main" \in Thread
  BY DEF LinkRegs, Calmly, TypeOK, Thread
<1>1. Sends("main") /\ dev' = Written(w) /\ wire' = Echoed(w) /\ pc["main"] \in {"links", "mix"}
      /\ outcome # "refused"
  <2>1. \A h \in HandRegs : HandTurns(h) => dev'[r] = dev[r]
    BY <1>0 DEF HandTurns, HandsOff, Calmly, DeskTypeOK
  <2>. QED
    BY <2>1, WhoChangesDev DEF Calmly
<1>2. w \in Sendable /\ w \in Plan(c)
  <2>1. todo["main"] # <<>>
    BY <1>1 DEF Sends
  <2>. QED
    BY <1>0, <1>1, <2>1, SentIsSendable DEF Calmly, SendsOf
<1>. HIDE DEF w
<1>3. w.reg = r /\ dev'[r] = w.args
  BY <1>0, <1>1, <1>2, NoCellWritten
<1>4. w \in Links(c)
  <2>1. CASE w \in ToSet(LinksOf[c])
    BY <2>1, BurstsOfRoutes
  <2>2. CASE w \in Mixes(c) \union ToSet(c.channels)
    BY <1>0, <1>3, <2>2, MixFacts, FeederIsCell
  <2>. QED
    BY <1>2, <2>1, <2>2, BurstsOfRoutes DEF Plan
<1>5. dev[w.reg] # w.args
  BY <1>3
<1>6. pc["main"] = "links"
  BY <1>1, <1>4, <1>5 DEF LinksWritten
<1>7. wire' = Append(wire, w)
  BY <1>1, <1>3, <1>5 DEF Echoed
<1>. QED
  BY <1>1, <1>3, <1>4, <1>6, <1>7 DEF w

\* Reports go from the wire to the port, and oscmix reads them on the way.
LEMMA ReportsMove ==
  ASSUME TypeOK, DeskChange, child' = "up"
  PROVE  \/ /\ Deliver /\ dev' = dev /\ wire # <<>>
            /\ \A m \in ToSet(wire) : m = Head(wire) \/ m \in ToSet(wire')
            /\ \A m \in ToSet(inbox') : m \in ToSet(inbox) \/ m = Head(wire)
            /\ \A r \in LinkRegs :
                 view'[r] = IF r = Head(wire).reg THEN Head(wire).args ELSE view[r]
            /\ Head(wire) \in ToSet(wire)
         \/ /\ view' = view /\ ToSet(inbox') \subseteq ToSet(inbox)
            /\ ToSet(wire) \subseteq ToSet(wire')
<1>0. /\ wire \in Seq(Report) /\ inbox \in Seq(Report) /\ dump \in Seq(Reg)
      /\ view \in [LinkRegs -> Values]
  BY DEF TypeOK, DeskTypeOK
<1>1. CASE Deliver
  <2>1. /\ wire # <<>> /\ wire' = Tail(wire) /\ dev' = dev
        /\ inbox' = inbox \/ inbox' = Append(inbox, Head(wire))
        /\ view' = IF Head(wire).reg \in LinkRegs
                   THEN [view EXCEPT ![Head(wire).reg] = Head(wire).args] ELSE view
    BY <1>1 DEF Deliver
  <2>2. Head(wire) \in Report /\ Head(wire) \in ToSet(wire)
    BY <1>0, <2>1 DEF ToSet
  <2>3. ToSet(Append(inbox, Head(wire))) = ToSet(inbox) \union {Head(wire)}
    BY <1>0, <2>2, Appended
  <2>4. \A m \in ToSet(wire) : m = Head(wire) \/ m \in ToSet(wire')
    BY <1>0, <2>1, HeadOrTail
  <2>5. \A r \in LinkRegs :
          view'[r] = IF r = Head(wire).reg THEN Head(wire).args ELSE view[r]
    BY <1>0, <2>1
  <2>6. \A m \in ToSet(inbox') : m \in ToSet(inbox) \/ m = Head(wire)
    BY <2>1, <2>3
  <2>. QED
    BY <1>1, <2>1, <2>2, <2>4, <2>5, <2>6
<1>2. ASSUME NEW w \in Report, view' = view, inbox' = inbox,
             wire' = wire \/ wire' = Append(wire, w)
      PROVE  /\ view' = view /\ ToSet(inbox') \subseteq ToSet(inbox)
             /\ ToSet(wire) \subseteq ToSet(wire')
  <2>1. ToSet(Append(wire, w)) = ToSet(wire) \union {w}
    BY <1>0, Appended
  <2>. QED
    BY <1>2, <2>1
<1>3. ASSUME NEW t \in Thread, Sends(t)
      PROVE  /\ view' = view /\ ToSet(inbox') \subseteq ToSet(inbox)
             /\ ToSet(wire) \subseteq ToSet(wire')
  <2>1. Head(todo[t]) \in Report
    BY <1>3, SentIsSendable DEF Sends, Sendable
  <2>2. view' = view /\ inbox' = inbox /\ (wire' = wire \/ wire' = Append(wire, Head(todo[t])))
    BY <1>3 DEF Sends, PutRegister, Echoed
  <2>. QED
    BY <1>2, <2>1, <2>2
<1>4. ASSUME NEW r \in HandRegs, HandTurns(r)
      PROVE  /\ view' = view /\ ToSet(inbox') \subseteq ToSet(inbox)
             /\ ToSet(wire) \subseteq ToSet(wire')
  <2>1. PICK v \in FaderValues : wire' = Echoed(Message(r, v))
    BY <1>4 DEF HandTurns
  <2>2. Message(r, v) \in Report /\ inbox' = inbox /\ view' = view
    BY <1>4, DeskConstants DEF Message, Report, HandTurns
  <2>. QED
    BY <1>2, <2>1, <2>2 DEF Echoed
<1>5. CASE DumpNext
  <2>1. ToSet(wire) = {}
    BY <1>5 DEF DumpNext, ToSet
  <2>. QED
    BY <1>5, <2>1 DEF DumpNext
<1>6. CASE ControlStep
  <2>1. inbox # <<>> => ToSet(Tail(inbox)) \subseteq ToSet(inbox)
    BY <1>0 DEF ToSet
  <2>2. ToSet(<<>>) = {}
    BY DEF ToSet
  <2>. QED
    BY <1>6, <2>1, <2>2 DEF ControlStep, KeepsReports
<1>7. CASE RefreshStep \/ BackendBinds \/ LosesBackend
  BY <1>7 DEF RefreshStep, PutRefresh, BackendBinds, LosesBackend
<1>. QED
  BY <1>1, <1>3, <1>4, <1>5, <1>6, <1>7 DEF DeskChange

LEMMA LinksReportedStep ==
  ASSUME NEW c \in Configs, Wired(c), Calmly(c), LinksReported(c), LinksWritten(c)
  PROVE  LinksReported(c)'
<1>. TypeOK /\ DeskChange /\ child' = "up" /\ "main" \in Thread
  BY DEF Calmly, Thread
<1>0. pc'["main"] \in {"boot", "links"} => pc["main"] \in {"boot", "links"}
  BY DEF Calmly, Course, Alike, ToMix, Behind, Before
<1>1. ASSUME NEW m \in UnderWay', m.reg \in LinkRegs
      PROVE  /\ m.args = dev'[m.reg]
             /\ pc'["main"] \in {"boot", "links"} => m \in Plan(c)
  <2>1. CASE m \in UnderWay
    <3>1. m.args = dev[m.reg] /\ (pc["main"] \in {"boot", "links"} => m \in Plan(c))
      BY <1>1, <2>1 DEF LinksReported
    <3>2. CASE dev'[m.reg] # dev[m.reg]
      <4>. DEFINE w == Head(todo["main"])
      <4>1. pc["main"] = "links" /\ w \in Links(c) /\ w.reg = m.reg /\ dev'[m.reg] = w.args
        BY <1>1, <3>2, LinkTurned
      <4>. HIDE DEF w
      <4>2. m = w
        BY <3>1, <4>1, PlanAboutLinks
      <4>. QED
        BY <3>1, <4>1, <4>2
    <3>. QED
      BY <1>0, <3>1, <3>2
  <2>2. CASE m \notin UnderWay
    <3>1. m.args = dev'[m.reg] /\ Reason(m)
      BY <2>2, ReportsAreTrue
    <3>2. m.reg \notin HandRegs
      BY <1>1 DEF HandsOff, LinkRegs, Calmly
    <3>3. CASE m.reg \in ToSet(dump)
      <4>1. dump # <<>>
        BY <3>3 DEF ToSet
      <4>. QED
        BY <1>0, <3>1, <4>1 DEF LinksReported
    <3>4. CASE \E t \in Thread : Sends(t) /\ m = Head(todo[t])
      BY <3>1, <3>4 DEF Calmly, SendsOf
    <3>. QED
      BY <3>1, <3>2, <3>3, <3>4 DEF Reason
  <2>. QED
    BY <2>1, <2>2
<1>2. ASSUME NEW r \in LinkRegs
      PROVE  view'[r] = dev'[r] \/ \E m \in ToSet(wire') : m.reg = r
  <2>1. CASE dev'[r] # dev[r]
    <3>. DEFINE w == Head(todo["main"])
    <3>1. Sends("main") /\ w.reg = r /\ wire' = Append(wire, w)
      BY <2>1, LinkTurned
    <3>2. w \in Report
      BY <3>1, SentIsSendable DEF Sends, Sendable
    <3>. HIDE DEF w
    <3>3. w \in ToSet(wire')
      BY <3>1, <3>2, Appended DEF TypeOK, DeskTypeOK
    <3>. QED
      BY <3>1, <3>3
  <2>2. CASE dev'[r] = dev[r]
    <3>1. view[r] = dev[r] \/ \E m \in ToSet(wire) : m.reg = r
      BY DEF LinksReported
    <3>2. wire # <<>> /\ Head(wire) \in ToSet(wire) /\ Head(wire).reg = r => Head(wire).args = dev[r]
      BY DEF LinksReported, UnderWay
    <3>. QED
      BY <2>2, <3>1, <3>2, ReportsMove
  <2>. QED
    BY <2>1, <2>2
<1>3. ASSUME NEW m \in ToSet(inbox'), m.reg \in LinkRegs
      PROVE  view'[m.reg] = m.args
  <2>1. m \in ToSet(inbox) => view[m.reg] = m.args /\ m.args = dev[m.reg]
    BY <1>3 DEF LinksReported, UnderWay
  <2>2. wire # <<>> /\ Head(wire) \in ToSet(wire) /\ Head(wire).reg = m.reg
          => Head(wire).args = dev[m.reg]
    BY <1>3 DEF LinksReported, UnderWay
  <2>. QED
    BY <1>3, <2>1, <2>2, ReportsMove
<1>4. pc'["main"] \in {"boot", "links"} => dump' = <<>>
  BY <1>0 DEF LinksReported, Calmly, Onward, Undisturbed, Alone
<1>. QED
  BY <1>1, <1>2, <1>3, <1>4 DEF LinksReported

LEMMA LinksWrittenStep ==
  ASSUME NEW c \in Configs, Wired(c), Calmly(c), LinksWritten(c)
  PROVE  LinksWritten(c)'
<1>. "main" \in Thread /\ TypeOK /\ DeskChange /\ HandsOff /\ SendsOf(c)
  BY DEF Thread, Calmly
<1>. SUFFICES ASSUME pc'["main"] # "boot", outcome' # "refused", NEW m \in Links(c)
              PROVE  dev'[m.reg] = m.args \/ (pc'["main"] = "links" /\ m \in ToSet(todo'["main"]))
  BY DEF LinksWritten
<1>0. outcome # "refused"
  BY DEF Calmly, Onward
<1>1. dev[m.reg] = m.args => dev'[m.reg] = m.args
  BY LinkKept
<1>2. CASE pc["main"] = "boot"
  <2>1. pc'["main"] = "links" /\ todo'["main"] = Without(LinksOf[c], {})
    BY <1>2 DEF Calmly, Course, Alike, Sends, Writing, Behind, Before
  <2>2. m \in ToSet(Without(LinksOf[c], {}))
    BY LinkFacts, PlannedMessages
  <2>. QED
    BY <2>1, <2>2
<1>3. CASE pc["main"] # "boot" /\ dev[m.reg] # m.args
  <2>1. pc["main"] = "links" /\ m \in ToSet(todo["main"])
    BY <1>0, <1>3 DEF LinksWritten
  <2>2. todo["main"] # <<>> /\ todo["main"] \in Seq(Sendable)
    BY <2>1 DEF ToSet, TypeOK, ThreadTypeOK
  <2>3. CASE Alike
    BY <2>1, <2>3 DEF Alike
  <2>4. CASE Sends("main") /\ pc'["main"] = pc["main"] /\ todo'["main"] = Tail(todo["main"])
    <3>1. CASE m = Head(todo["main"])
      <4>1. dev' = Written(Head(todo["main"]))
        BY <2>4 DEF Calmly
      <4>. QED
        BY <2>4, <3>1, <4>1, LinkKept
    <3>2. CASE m # Head(todo["main"])
      BY <2>1, <2>2, <2>4, <3>2, HeadOrTail
    <3>. QED
      BY <3>1, <3>2
  <2>. QED
    BY <2>1, <2>2, <2>3, <2>4 DEF Calmly, Course, Behind, Before
<1>. QED
  BY <1>1, <1>2, <1>3

\* Behind the first burst what oscmix knows of a link is not unlearnt.
LEMMA StillLearnt ==
  ASSUME NEW c \in Configs, Wired(c), Calmly(c), LinksReported(c), LinksWritten(c),
         NEW m \in AwaitedOf[c], pc["main"] \notin {"boot", "links"}, outcome # "refused",
         view[m.reg] = m.args
  PROVE  view'[m.reg] = m.args
<1>1. m \in Links(c) /\ m.reg \in LinkRegs
  BY AwaitedFacts
<1>2. dev[m.reg] = m.args
  BY <1>1 DEF LinksWritten
<1>3. wire # <<>> /\ Head(wire) \in ToSet(wire) /\ Head(wire).reg = m.reg
        => Head(wire).args = dev[m.reg]
  BY <1>1 DEF LinksReported, UnderWay
<1>. QED
  BY <1>1, <1>2, <1>3, ReportsMove DEF Calmly

\* A deadline that passes with nothing under way finds the links learnt.
LEMMA LearntByDeadline ==
  ASSUME NEW c \in Configs, Wired(c), TypeOK, LinksReported(c), LinksWritten(c),
         Late \intersect LinkRegs = {}, DeadlineFor(LinkRegs),
         pc["main"] \in {"echo", "settle"}, outcome # "refused", NEW m \in AwaitedOf[c]
  PROVE  view[m.reg] = m.args
<1>1. m \in Links(c) /\ m.reg \in LinkRegs
  BY AwaitedFacts
<1>2. dev[m.reg] = m.args
  BY <1>1 DEF LinksWritten
<1>3. \A w \in ToSet(wire) : w.reg # m.reg
  <2>1. ToSet(wire \o inbox) = ToSet(wire) \union ToSet(inbox)
    BY ConcatRange DEF TypeOK, DeskTypeOK
  <2>. QED
    BY <1>1, <2>1 DEF DeadlineFor
<1>. QED
  BY <1>1, <1>2, <1>3 DEF LinksReported

LEMMA LinksLearntStep ==
  ASSUME NEW c \in Configs, Wired(c), Calmly(c), Late \intersect LinkRegs = {},
         LinksReported(c), LinksWritten(c), LinksLearnt(c)
  PROVE  LinksLearnt(c)'
<1>. TypeOK
  BY DEF Calmly
<1>1. ASSUME NEW m \in AwaitedOf[c], pc["main"] = "echo", inbox # <<>>,
             m = Head(inbox) \/ m \notin pending["main"]
      PROVE  view'[m.reg] = m.args
  <2>1. m = Head(inbox) => view[m.reg] = m.args
    <3>1. Head(inbox) \in ToSet(inbox)
      BY <1>1 DEF TypeOK, DeskTypeOK, ToSet
    <3>. QED
      BY <3>1, AwaitedFacts DEF LinksReported
  <2>2. view[m.reg] = m.args
    BY <1>1, <2>1 DEF LinksLearnt
  <2>. QED
    BY <1>1, <2>2, StillLearnt DEF Calmly, Before
<1>2. ASSUME pc'["main"] = "echo", NEW m \in AwaitedOf[c] \ pending'["main"]
      PROVE  view'[m.reg] = m.args
  <2>1. CASE pc["main"] = "echo" /\ pending'["main"] = pending["main"]
    <3>1. view[m.reg] = m.args
      BY <1>2, <2>1 DEF LinksLearnt
    <3>. QED
      BY <1>2, <2>1, <3>1, StillLearnt DEF Calmly, Before
  <2>2. CASE /\ pc["main"] = "echo" /\ inbox # <<>>
             /\ pending'["main"] = pending["main"] \ {Head(inbox)}
    BY <1>1, <1>2, <2>2
  <2>. QED
    BY <1>2, <2>1, <2>2 DEF Calmly, Course, Alike, ToMix, Behind, Before
<1>3. ASSUME Through', NEW m \in AwaitedOf[c]
      PROVE  view'[m.reg] = m.args
  <2>0. outcome # "refused" /\ outcome' # "refused" /\ pc'["main"] \notin Before
    BY <1>3 DEF Through, Calmly, Onward
  <2>1. CASE Through
    <3>1. view[m.reg] = m.args
      BY <2>1 DEF LinksLearnt
    <3>. QED
      BY <2>0, <2>1, <3>1, StillLearnt DEF Through, Before
  <2>2. CASE /\ pc["main"] = "echo" /\ inbox # <<>> /\ pending'["main"] = {}
             /\ pending'["main"] = pending["main"] \ {Head(inbox)}
    BY <1>1, <2>2
  <2>3. CASE pc["main"] \in {"echo", "settle"} /\ DeadlineFor(LinkRegs)
    <3>1. view[m.reg] = m.args
      BY <2>0, <2>3, LearntByDeadline
    <3>. QED
      BY <2>0, <2>3, <3>1, StillLearnt
  <2>. QED
    BY <2>0, <2>1, <2>2, <2>3 DEF Calmly, Course, Alike, Behind, Before, Through
<1>. QED
  BY <1>2, <1>3 DEF LinksLearnt

----------------------------------------------------------------------------
(* The mix, folded by those links.                                         *)

LEMMA RoutesFedStep ==
  ASSUME NEW c \in Configs, Wired(c), Calmly(c), LinksLearnt(c), RoutesFed(c)
  PROVE  RoutesFed(c)'
<1>. "main" \in Thread /\ TypeOK /\ DeskChange /\ HandsOff /\ SendsOf(c)
  BY DEF Thread, Calmly
<1>. SUFFICES ASSUME Through', NEW route \in ToSet(c.routes), NEW out \in ToSet(route.output)
              PROVE  Fed(route, out)' \/
                     (pc'["main"] = "mix" /\ Feeder(route, out) \in ToSet(todo'["main"]))
  BY DEF RoutesFed
<1>0. outcome # "refused" /\ outcome' # "refused" /\ pc'["main"] \notin Before
  BY DEF Through, Calmly, Onward
<1>1. CASE ToMix(c)
  <2>1. Feeder(route, out) \in ToSet(Without(MixesOf[c], {}))
    BY FeedersPlanned, PlannedMessages
  <2>. QED
    BY <1>1, <2>1 DEF ToMix
<1>2. CASE Through
  <2>1. LinkSeen(route)
    <3>. SUFFICES ASSUME IsPair(route)
                  PROVE  view[Stereo("output", route.output[1])] = <<IF route.stereo THEN 1 ELSE 0>>
      BY DEF LinkSeen
    <3>. DEFINE m == Message(Stereo("output", route.output[1]), <<IF route.stereo THEN 1 ELSE 0>>)
    <3>1. m \in AwaitedOf[c]
      BY PairIsAwaited
    <3>2. m.reg = Stereo("output", route.output[1]) /\ m.args = <<IF route.stereo THEN 1 ELSE 0>>
      BY DEF Message
    <3>. HIDE DEF m
    <3>. QED
      BY <1>2, <3>1, <3>2 DEF LinksLearnt
  <2>2. CASE Fed(route, out)
    BY <2>1, <2>2, CellKept
  <2>3. CASE pc["main"] = "mix" /\ Feeder(route, out) \in ToSet(todo["main"])
    <3>1. todo["main"] # <<>> /\ todo["main"] \in Seq(Sendable)
      BY <2>3 DEF ToSet, TypeOK, ThreadTypeOK
    <3>2. CASE Alike
      BY <2>3, <3>2 DEF Alike
    <3>3. CASE Sends("main") /\ pc'["main"] = pc["main"] /\ todo'["main"] = Tail(todo["main"])
      <4>1. CASE Feeder(route, out) = Head(todo["main"])
        <5>1. dev' = Written(Head(todo["main"]))
          BY <3>3 DEF Calmly
        <5>. QED
          BY <2>1, <3>3, <4>1, <5>1, CellKept
      <4>2. CASE Feeder(route, out) # Head(todo["main"])
        BY <2>3, <3>1, <3>3, <4>2, HeadOrTail
      <4>. QED
        BY <4>1, <4>2
    <3>. QED
      BY <2>3, <3>1, <3>2, <3>3 DEF Calmly, Course, Behind, Before
  <2>. QED
    BY <1>2, <2>2, <2>3 DEF RoutesFed
<1>. QED
  BY <1>0, <1>1, <1>2 DEF Calmly, Course, Alike, Behind, Before, Through

LEMMA HeardStep ==
  ASSUME SwitchTypeOK, SwitchInv, Untouched, NEW c \in Startups, HeardInv(c),
         [SwitchNext]_allVars
  PROVE  HeardInv(c)'
<1>. /\ "main" \in Thread /\ c \in Configs /\ Wired(c) /\ TypeOK /\ DeskChange /\ OwnChange
  BY DeskInSwitch, OwnInSwitch DEF Thread, Configs, SwitchTypeOK, Untouched
<1>1. cfg'["main"] = c
  BY DEF HeardInv, OwnChange
<1>2. child' # "starting"
  BY DEF DeskChange, ControlStep, KeepsReports, RefreshStep, PutRefresh, Sends, PutRegister,
         DumpNext, Deliver, BackendBinds, LosesBackend, HandTurns, HeardInv
<1>3. ASSUME NEW i \in 1 .. Len(todo'["main"])
      PROVE  todo'["main"][i] \in Plan(c)
  <2>0. todo["main"] \in Seq(Sendable)
    BY DEF TypeOK, ThreadTypeOK
  <2>1. CASE todo'["main"] = todo["main"]
    BY <1>3, <2>1 DEF HeardInv
  <2>2. CASE todo["main"] # <<>> /\ todo'["main"] = Tail(todo["main"])
    <3>1. i + 1 \in 1 .. Len(todo["main"]) /\ todo'["main"][i] = todo["main"][i + 1]
      BY <1>3, <2>0, <2>2
    <3>. QED
      BY <3>1 DEF HeardInv
  <2>3. CASE todo'["main"] \in BurstsOf(cfg["main"])
    BY <1>3, <2>3, BurstsArePlanned DEF HeardInv
  <2>. QED
    BY <2>1, <2>2, <2>3 DEF OwnChange, TodoChange
<1>4. ASSUME Undisturbed'
      PROVE  (LinksReported(c) /\ LinksLearnt(c) /\ LinksWritten(c) /\ RoutesFed(c))'
  <2>1. Calmly(c)
    BY <1>4, StillCalm
  <2>2. LinksReported(c) /\ LinksLearnt(c) /\ LinksWritten(c) /\ RoutesFed(c)
    BY <2>1 DEF HeardInv, Calmly
  <2>3. Late \intersect LinkRegs = {}
    BY DEF Untouched
  <2>. QED
    BY <2>1, <2>2, <2>3, LinksReportedStep, LinksLearntStep, LinksWrittenStep, RoutesFedStep
<1>. QED
  BY <1>1, <1>2, <1>3, <1>4 DEF HeardInv

LEMMA HeardInit == SwitchInit => Heard
<1>. SUFFICES ASSUME SwitchInit PROVE Heard
  OBVIOUS
<1>1. PICK b \in Beginnings, c \in Startups :
        /\ cfg = [t \in Thread |-> IF t = "main" \/ b.session = NoSession THEN c ELSE b.session]
        /\ view = [r \in LinkRegs |-> IF b.known THEN dev[r] ELSE <<0>>]
        /\ child = b.child /\ known = b.known
  BY DEF SwitchInit
<1>2. /\ wire = <<>> /\ dump = <<>> /\ inbox = <<>> /\ outcome = "none"
      /\ todo["main"] = <<>> /\ pc["main"] = "boot"
  BY DEF SwitchInit, Thread
<1>3. cfg["main"] = c /\ child # "starting"
  BY <1>1, SwitchConstants DEF Thread
<1>4. ToSet(wire) = {} /\ ToSet(inbox) = {} /\ UnderWay = {}
  BY <1>2 DEF UnderWay, ToSet
<1>5. ~Through /\ pc["main"] # "echo"
  BY <1>2 DEF Through, Before
<1>6. Undisturbed => LinksReported(c) /\ LinksLearnt(c) /\ LinksWritten(c) /\ RoutesFed(c)
  BY <1>1, <1>2, <1>4, <1>5
     DEF Undisturbed, LinksReported, LinksLearnt, LinksWritten, RoutesFed
<1>. QED
  BY <1>2, <1>3, <1>6 DEF Heard, HeardInv

\* Of a profile whose routes do not get into each other's way, a device whose
\* links and mix nobody else turns and a barrier that is long enough: after a
\* switch that was alone, lost nothing and met a backend that knew the links,
\* both sides of every pair are fed, heard at the barrier or waited for blindly,
\* read back or not.
THEOREM SwitchIsAudible == Untouched => (SwitchSpec => []SwitchedMeansAudible)
<1>. SUFFICES ASSUME Untouched PROVE SwitchSpec => []SwitchedMeansAudible
  OBVIOUS
<1>. DEFINE Inv == SwitchTypeOK /\ SwitchInv /\ Heard
<1>1. SwitchInit => Inv
  BY SwitchTypeInit, SwitchInvInit, HeardInit
<1>2. Inv /\ [SwitchNext]_allVars => Inv'
  <2>. SUFFICES ASSUME Inv, [SwitchNext]_allVars PROVE Inv'
    OBVIOUS
  <2>1. SwitchTypeOK' /\ SwitchInv'
    BY SwitchTypeStep, SwitchInvStep
  <2>2. PICK c \in Startups : HeardInv(c)
    BY DEF Heard
  <2>3. HeardInv(c)'
    BY <2>2, HeardStep
  <2>. QED
    BY <2>1, <2>3 DEF Heard
<1>3. Inv => SwitchedMeansAudible
  <2>. SUFFICES ASSUME Inv, outcome \in APPLIED, Undisturbed
                PROVE  RoutedAs(cfg["main"])
    BY DEF SwitchedMeansAudible, Undisturbed
  <2>1. PICK c \in Startups : HeardInv(c)
    BY DEF Heard
  <2>2. pc["main"] = "exit" /\ outcome # "refused"
    BY DEF SwitchInv, APPLIED
  <2>3. \A m \in Links(c) : dev[m.reg] = m.args
    BY <2>1, <2>2 DEF HeardInv, LinksWritten
  <2>4. \A route \in ToSet(c.routes) : \A out \in ToSet(route.output) : Fed(route, out)
    BY <2>1, <2>2 DEF HeardInv, RoutesFed, Through, Before
  <2>5. RoutedAs(c)
    BY <2>3, <2>4, RoutedWhenFed
  <2>. QED
    BY <2>1, <2>5 DEF HeardInv
<1>. HIDE DEF Inv
<1>. QED
  BY <1>1, <1>2, <1>3, PTL DEF SwitchSpec

=============================================================================
