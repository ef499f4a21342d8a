----------------------------- MODULE SessionProofs -----------------------------
(***************************************************************************)
(* Theorems about the session, for every value of its constants: what its  *)
(* plans are made of; types, the start, the port, a reload and the stop    *)
(* contract; and what a thread may conclude from the reports it takes.     *)
(*                                                                         *)
(* The link barrier and the re-apply that waits for it, with every loss,   *)
(* crash and signal: a link that was heard as it is wanted is at the       *)
(* device, is known to oscmix, and stays both.  What the device may keep,  *)
(* when no datagram is lost: what was confirmed is there, or has moved.    *)
(***************************************************************************)
EXTENDS SessionProperties, PlanProofs, SequenceTheorems, TLAPS

----------------------------------------------------------------------------
(* The bursts of a configuration.                                          *)

\* The messages of the routes, one route after the other.
LEMMA RoutesInOrder ==
  ASSUME NEW c \in Configs, NEW S, NEW seqs, seqs = [i \in DOMAIN c.routes |-> seqs[i]],
         \A i \in DOMAIN c.routes : seqs[i] \in Seq(S)
  PROVE  /\ FlattenSeq(seqs) \in Seq(S)
         /\ ToSet(FlattenSeq(seqs)) = UNION {ToSet(seqs[i]) : i \in DOMAIN c.routes}
<1>. DEFINE n == Len(c.routes)
<1>1. c.routes \in Seq(ToSet(c.routes))
  BY ConfigsAreModelled
<1>2. DOMAIN c.routes = 1 .. n /\ n \in Nat
  BY <1>1
<1>. HIDE DEF n
<1>3. seqs = [i \in 1 .. n |-> seqs[i]] /\ DOMAIN seqs = 1 .. n
  BY <1>2
<1>4. \A i \in 1 .. n : seqs[i] \in Seq(S)
  BY <1>2
<1>5. seqs \in Seq(Seq(S))
  BY <1>2, <1>3, <1>4
<1>6. ToSet(FlattenSeq(seqs)) = UNION {ToSet(seqs[i]) : i \in DOMAIN seqs}
  BY <1>5, FlattenRange
<1>. QED
  BY <1>2, <1>3, <1>5, <1>6, FlattenTyped

\* What the writes of a burst are before each register is written once.
LEMMA MessagesOfRoutes ==
  ASSUME NEW c \in Configs
  PROVE  /\ AllLinks(c) \in Seq(Sendable)
         /\ ToSet(AllLinks(c)) = UNION {ToSet(LinkMessages(route)) : route \in ToSet(c.routes)}
         /\ AllMixes(c) \in Seq(Sendable)
         /\ ToSet(AllMixes(c)) = UNION {ToSet(MixMessages(route)) : route \in ToSet(c.routes)}
<1>. DEFINE links == [i \in DOMAIN c.routes |-> LinkMessages(c.routes[i])]
            mixes == [i \in DOMAIN c.routes |-> MixMessages(c.routes[i])]
<1>1. ToSet(c.routes) = {c.routes[i] : i \in DOMAIN c.routes}
  BY DEF ToSet
<1>2. \A i \in DOMAIN c.routes : links[i] \in Seq(Sendable) /\ mixes[i] \in Seq(Sendable)
  BY <1>1, ConfigsAreModelled
<1>3. /\ UNION {ToSet(links[i]) : i \in DOMAIN c.routes}
           = UNION {ToSet(LinkMessages(route)) : route \in ToSet(c.routes)}
      /\ UNION {ToSet(mixes[i]) : i \in DOMAIN c.routes}
           = UNION {ToSet(MixMessages(route)) : route \in ToSet(c.routes)}
  BY <1>1
<1>4. /\ links = [i \in DOMAIN c.routes |-> links[i]]
      /\ mixes = [i \in DOMAIN c.routes |-> mixes[i]]
  OBVIOUS
<1>5. AllLinks(c) = FlattenSeq(links) /\ AllMixes(c) = FlattenSeq(mixes)
  BY DEF AllLinks, AllMixes
<1>. HIDE DEF links, mixes
<1>6. /\ FlattenSeq(links) \in Seq(Sendable)
      /\ ToSet(FlattenSeq(links)) = UNION {ToSet(links[i]) : i \in DOMAIN c.routes}
  BY <1>2, <1>4, RoutesInOrder
<1>7. /\ FlattenSeq(mixes) \in Seq(Sendable)
      /\ ToSet(FlattenSeq(mixes)) = UNION {ToSet(mixes[i]) : i \in DOMAIN c.routes}
  BY <1>2, <1>4, RoutesInOrder
<1>. QED
  BY <1>3, <1>5, <1>6, <1>7

\* The two bursts, each register of a dictionary once.
LEMMA BurstsOfConfig ==
  ASSUME NEW c \in Configs
  PROVE  /\ LinksOf[c] \in Seq(Sendable)
         /\ MixesOf[c] \in Seq(Sendable)
         /\ ToSet(LinksOf[c]) = ToSet(Deduplicated(AllLinks(c)))
         /\ ToSet(MixesOf[c]) = ToSet(Deduplicated(AllMixes(c))) \union ToSet(c.channels)
<1>1. Deduplicated(AllLinks(c)) \in Seq(Sendable) /\ Deduplicated(AllMixes(c)) \in Seq(Sendable)
  BY MessagesOfRoutes, DeduplicatedTyped
<1>2. c.channels \in Seq(Sendable)
  BY ConfigsAreModelled
<1>3. /\ LinksOf[c] = Deduplicated(AllLinks(c))
      /\ MixesOf[c] = Deduplicated(AllMixes(c)) \o c.channels
  BY DEF LinksOf, MixesOf, PlannedLinks, PlannedMixes
<1>4. ToSet(MixesOf[c]) = ToSet(Deduplicated(AllMixes(c))) \union ToSet(c.channels)
  BY <1>1, <1>2, <1>3, ConcatRange
<1>5. Deduplicated(AllMixes(c)) \o c.channels \in Seq(Sendable)
  BY <1>1, <1>2
<1>. QED
  BY <1>1, <1>3, <1>4, <1>5

\* The last messages about each register are about every register.
LEMMA ExpectedOfConfig ==
  ASSUME NEW c \in Configs
  PROVE  /\ WantedOf[c] \subseteq ToSet(LinksOf[c]) \union ToSet(MixesOf[c])
         /\ \A m \in ToSet(LinksOf[c]) \union ToSet(MixesOf[c]) : \E w \in WantedOf[c] : w.reg = m.reg
<1>. DEFINE all == Desired(c)
<1>1. LinksOf[c] \in Seq(Sendable) /\ MixesOf[c] \in Seq(Sendable)
  BY BurstsOfConfig
<1>2. all = LinksOf[c] \o MixesOf[c]
  BY DEF Desired, LinksOf, MixesOf
<1>. HIDE DEF all
<1>3. all \in Seq(Sendable)
  BY <1>1, <1>2
<1>4. ToSet(all) = ToSet(LinksOf[c]) \union ToSet(MixesOf[c])
  BY <1>1, <1>2, ConcatRange
<1>5. WantedOf[c] = {all[i] : i \in {i \in DOMAIN all :
                                      \A j \in DOMAIN all : j > i => all[j].reg # all[i].reg}}
  BY DEF WantedOf, ExpectedRegisters, all
<1>6. WantedOf[c] \subseteq ToSet(all)
  BY <1>5 DEF ToSet
<1>7. ASSUME NEW i \in DOMAIN all PROVE \E w \in WantedOf[c] : w.reg = all[i].reg
  <2>1. PICK j \in DOMAIN all : /\ all[j].reg = all[i].reg
                                /\ \A k \in DOMAIN all : k > j => all[k].reg # all[j].reg
    BY <1>3, LastMessage
  <2>. QED
    BY <1>5, <2>1
<1>8. \A m \in ToSet(all) : \E w \in WantedOf[c] : w.reg = m.reg
  BY <1>7 DEF ToSet
<1>. QED
  BY <1>4, <1>6, <1>8

\* Each burst is about what its routes are about, and says nothing else: the
\* dictionaries of the plan lose no register and invent no message.
THEOREM PlansComeFromRoutes ==
  \A c \in Configs :
    LET links == UNION {ToSet(LinkMessages(route)) : route \in ToSet(c.routes)}
        mixes == UNION {ToSet(MixMessages(route)) : route \in ToSet(c.routes)}
        named == ToSet(c.channels)
        about(msgs) == {m.reg : m \in msgs}
    IN  /\ ToSet(LinksOf[c]) \subseteq links
        /\ about(links) \subseteq about(ToSet(LinksOf[c]))
        /\ ToSet(MixesOf[c]) \subseteq mixes \union named
        /\ about(mixes) \subseteq about(ToSet(MixesOf[c]))
        /\ ToSet(RemixOf[c]) = mixes
        /\ AwaitedOf[c] = {m \in ToSet(LinksOf[c]) : m.reg[1] = "output"}
        /\ WantedOf[c] \subseteq ToSet(LinksOf[c]) \union ToSet(MixesOf[c])
        /\ about(ToSet(LinksOf[c])) \subseteq RegistersOf[c]
        /\ about(WantedOf[c]) = RegistersOf[c]
<1>. TAKE c \in Configs
<1>. DEFINE links == UNION {ToSet(LinkMessages(route)) : route \in ToSet(c.routes)}
            mixes == UNION {ToSet(MixMessages(route)) : route \in ToSet(c.routes)}
            named == ToSet(c.channels)
<1>1. /\ AllLinks(c) \in Seq(Sendable) /\ ToSet(AllLinks(c)) = links
      /\ AllMixes(c) \in Seq(Sendable) /\ ToSet(AllMixes(c)) = mixes
  BY MessagesOfRoutes
<1>2. /\ ToSet(LinksOf[c]) = ToSet(Deduplicated(AllLinks(c)))
      /\ ToSet(MixesOf[c]) = ToSet(Deduplicated(AllMixes(c))) \union named
  BY BurstsOfConfig
<1>3. /\ AwaitedOf[c] = {m \in ToSet(LinksOf[c]) : m.reg[1] = "output"}
      /\ RemixOf[c] = AllMixes(c)
      /\ {m.reg : m \in WantedOf[c]} = RegistersOf[c]
  BY DEF AwaitedOf, OutputLinkState, LinksOf, RemixOf, SendMixMessages, WantedOf, RegistersOf
<1>. HIDE DEF links, mixes, named
<1>4. ToSet(Deduplicated(AllLinks(c))) \subseteq links /\ ToSet(Deduplicated(AllMixes(c))) \subseteq mixes
  BY <1>1, DeduplicatedRange
<1>5. \A m \in links : \E d \in ToSet(Deduplicated(AllLinks(c))) : d.reg = m.reg
  <2>1. ASSUME NEW i \in DOMAIN AllLinks(c)
        PROVE  \E d \in ToSet(Deduplicated(AllLinks(c))) : d.reg = AllLinks(c)[i].reg
    BY <1>1, DeduplicatedRegisters
  <2>2. links = {AllLinks(c)[i] : i \in DOMAIN AllLinks(c)}
    BY <1>1 DEF ToSet
  <2>. QED
    BY <2>1, <2>2
<1>6. \A m \in mixes : \E d \in ToSet(Deduplicated(AllMixes(c))) : d.reg = m.reg
  <2>1. ASSUME NEW i \in DOMAIN AllMixes(c)
        PROVE  \E d \in ToSet(Deduplicated(AllMixes(c))) : d.reg = AllMixes(c)[i].reg
    BY <1>1, DeduplicatedRegisters
  <2>2. mixes = {AllMixes(c)[i] : i \in DOMAIN AllMixes(c)}
    BY <1>1 DEF ToSet
  <2>. QED
    BY <2>1, <2>2
<1>7. /\ WantedOf[c] \subseteq ToSet(LinksOf[c]) \union ToSet(MixesOf[c])
      /\ \A m \in ToSet(LinksOf[c]) : \E w \in WantedOf[c] : w.reg = m.reg
  BY ExpectedOfConfig
<1>8. {m.reg : m \in ToSet(LinksOf[c])} \subseteq RegistersOf[c]
  BY <1>3, <1>7
<1>9. /\ {m.reg : m \in links} \subseteq {m.reg : m \in ToSet(LinksOf[c])}
      /\ {m.reg : m \in mixes} \subseteq {m.reg : m \in ToSet(MixesOf[c])}
  BY <1>2, <1>5, <1>6
<1>. QED
  BY <1>1, <1>2, <1>3, <1>4, <1>7, <1>8, <1>9 DEF links, mixes, named

\* To leave registers alone is to drop their messages, and only those.
LEMMA LeftAloneIsDropped ==
  \A c \in Configs, s \in SUBSET Reg :
    \A msgs \in {LinksOf[c], MixesOf[c]} :
      ToSet(Without(msgs, s)) = {m \in ToSet(msgs) : m.reg \notin s}
<1>. SUFFICES ASSUME NEW c \in Configs, NEW s \in SUBSET Reg, NEW msgs \in {LinksOf[c], MixesOf[c]}
              PROVE  ToSet(Without(msgs, s)) = {m \in ToSet(msgs) : m.reg \notin s}
  OBVIOUS
<1>1. \E S : msgs \in Seq(S)
  BY BurstsOfConfig
<1>. QED
  BY <1>1, WithoutRange

\* What a route links is a pair.
LEMMA LinksAreStereo ==
  ASSUME NEW route, NEW m \in ToSet(LinkMessages(route))
  PROVE  m.reg[3] = "stereo"
<1>1. CASE Len(route.output) # 2
  BY <1>1 DEF ToSet, LinkMessages
<1>2. CASE Len(route.output) = 2
  <2>1. PICK i \in {1, 2} : m = LinkMessages(route)[i]
    BY <1>2 DEF ToSet, LinkMessages
  <2>2. m.reg = Stereo(route.kind, route.source[1]) \/ m.reg = Stereo("output", route.output[1])
    BY <1>2, <2>1 DEF LinkMessages, Message
  <2>. QED
    BY <2>2 DEF Stereo
<1>. QED
  BY <1>1, <1>2

\* Every message of a plan, whatever is left alone, is about a register
\* modelled.
LEMMA PlansAreTyped ==
  \A c \in Configs :
    /\ \A s \in SUBSET Reg : /\ Without(LinksOf[c], s) \in Seq(Sendable)
                             /\ Without(MixesOf[c], s) \in Seq(Sendable)
    /\ RemixOf[c] \in Seq(Sendable)
    /\ AwaitedOf[c] \subseteq {m \in Report : m.reg \in LinkRegs}
    /\ RegistersOf[c] \subseteq Reg
<1>. TAKE c \in Configs
<1>1. LinksOf[c] \in Seq(Sendable) /\ MixesOf[c] \in Seq(Sendable)
  BY BurstsOfConfig
<1>2. \A s : Without(LinksOf[c], s) \in Seq(Sendable) /\ Without(MixesOf[c], s) \in Seq(Sendable)
  BY <1>1, WithoutRange
<1>3. RemixOf[c] \in Seq(Sendable)
  BY MessagesOfRoutes DEF RemixOf, SendMixMessages
<1>4. ToSet(LinksOf[c]) \subseteq Sendable /\ ToSet(MixesOf[c]) \subseteq Sendable
  BY <1>1 DEF ToSet
<1>5. Sendable \subseteq Report /\ \A m \in Report : m.reg \in Reg
  BY DEF Sendable, Report
<1>6. AwaitedOf[c] \subseteq {m \in Report : m.reg \in LinkRegs}
  <2>1. AwaitedOf[c] = {m \in ToSet(LinksOf[c]) : m.reg[1] = "output"}
    BY DEF AwaitedOf, OutputLinkState, LinksOf
  <2>2. ToSet(LinksOf[c]) \subseteq UNION {ToSet(LinkMessages(route)) : route \in ToSet(c.routes)}
    BY PlansComeFromRoutes
  <2>3. \A m \in ToSet(LinksOf[c]) : m.reg[3] = "stereo"
    BY <2>2, LinksAreStereo
  <2>. QED
    BY <1>4, <1>5, <2>1, <2>3 DEF LinkRegs
<1>7. RegistersOf[c] \subseteq Reg
  <2>1. RegistersOf[c] = {m.reg : m \in WantedOf[c]}
    BY DEF RegistersOf, WantedOf
  <2>2. WantedOf[c] \subseteq Report
    BY <1>4, <1>5, ExpectedOfConfig
  <2>. QED
    BY <1>5, <2>1, <2>2
<1>. QED
  BY <1>2, <1>3, <1>6, <1>7

----------------------------------------------------------------------------
(* Types.                                                                  *)

LEMMA DumpTyped == DumpOrder \in Seq(Reg)
  BY DeskConstants

\* What a message does to the device leaves the device well-typed.
LEMMA WrittenTyped ==
  ASSUME DeskTypeOK, NEW m \in Sendable
  PROVE  Written(m) \in [Reg -> Values]
<1>. m.reg \in Reg /\ m.args \in Values /\ <<m.args[1]>> \in Values
  BY DEF Sendable, Report
<1>. Off \in Values
  BY DeskConstants
<1>. QED
  BY DEF DeskTypeOK, Written

LEMMA PutRegisterTyped ==
  ASSUME DeskTypeOK, NEW m \in Sendable, PutRegister(m), UNCHANGED <<port, inbox>>
  PROVE  DeskTypeOK'
<1>1. Written(m) \in [Reg -> Values]
  BY WrittenTyped
<1>2. Echoed(m) \in Seq(Report)
  BY DEF Echoed, DeskTypeOK, Sendable
<1>3. drops' \in 0 .. MaxDrops
  BY DeskConstants DEF PutRegister, MayLose, DeskTypeOK
<1>. QED
  BY <1>1, <1>2, <1>3 DEF PutRegister, DeskTypeOK

LEMMA PutRefreshTyped ==
  ASSUME DeskTypeOK, PutRefresh, UNCHANGED <<port, inbox>>
  PROVE  DeskTypeOK'
<1>1. drops' \in 0 .. MaxDrops
  BY DeskConstants DEF PutRefresh, MayLose, DeskTypeOK
<1>. QED
  BY <1>1, DumpTyped DEF PutRefresh, DeskTypeOK

\* Whatever a thread starts to send is made of messages the device knows.
LEMMA BurstsTyped ==
  ASSUME ThreadTypeOK, NEW t \in Thread
  PROVE  /\ \A s \in SUBSET Reg : /\ Without(LinksOf[cfg[t]], s) \in Seq(Sendable)
                                 /\ Without(MixesOf[cfg[t]], s) \in Seq(Sendable)
         /\ RemixOf[cfg[t]] \in Seq(Sendable)
         /\ AwaitedOf[cfg[t]] \subseteq Report
         /\ Registers(t) \subseteq Reg
         /\ Kept(t) \subseteq Reg
  BY PlansAreTyped DEF ThreadTypeOK, Registers, Kept, KeptByTheDevice

LEMMA TypeApply ==
  ASSUME TypeOK, NEW t \in Thread, Apply(t)
  PROVE  TypeOK'
<1>. USE DEF TypeOK
<1>1. CASE SendNext(t)
  <2>1. DeskTypeOK'
    <3>1. Head(todo[t]) \in Sendable
      BY <1>1 DEF SendNext, ThreadTypeOK
    <3>. QED
      BY <1>1, <3>1, PutRegisterTyped DEF SendNext
  <2>2. ThreadTypeOK'
    <3>1. pc' \in [Thread -> PCs]
      BY <1>1 DEF ThreadTypeOK, PCs, Writing, Listening, Thread, SendNext
    <3>2. todo' \in [Thread -> Seq(Sendable)]
      BY <1>1, BurstsTyped DEF ThreadTypeOK, Thread, SendNext
    <3>. QED
      BY <1>1, <3>1, <3>2 DEF ThreadTypeOK, SendNext
  <2>3. VerifierTypeOK'
    BY <1>1 DEF VerifierTypeOK, SendNext, verifyVars, signalVars
  <2>4. SignalTypeOK'
    BY <1>1 DEF SignalTypeOK, SendNext, verifyVars, signalVars
  <2>5. HistoryTypeOK'
    BY <1>1 DEF HistoryTypeOK, SendNext, verifyVars, signalVars, MovedBy
  <2>. QED
    BY <2>1, <2>2, <2>3, <2>4, <2>5
<1>2. CASE ReachBarrier(t)
  <2>1. DeskTypeOK'
    <3>1. port' \in {"free", "gui"} \union Thread /\ inbox' \in Seq(Report)
      <4>1. CASE Bind(t, "echo")
        BY <4>1 DEF Bind
      <4>2. CASE UNCHANGED <<port, inbox>>
        BY <4>2 DEF DeskTypeOK
      <4>. QED
        BY <1>2, <4>1, <4>2 DEF ReachBarrier
    <3>. QED
      BY <1>2, <3>1 DEF ReachBarrier, DeskTypeOK
  <2>2. ThreadTypeOK'
    <3>1. pc' \in [Thread -> PCs]
      BY <1>2 DEF ThreadTypeOK, PCs, Writing, Listening, Thread, ReachBarrier, MixBurst, Burst, Goto, Bind
    <3>2. todo' \in [Thread -> Seq(Sendable)]
      <4>1. CASE MixBurst(t)
        BY <4>1, BurstsTyped DEF ThreadTypeOK, MixBurst, Burst
      <4>2. CASE UNCHANGED todo
        BY <4>2 DEF ThreadTypeOK
      <4>. QED
        BY <1>2, <4>1, <4>2 DEF ReachBarrier
    <3>. QED
      BY <1>2, <3>1, <3>2, BurstsTyped DEF ThreadTypeOK, ReachBarrier
  <2>3. VerifierTypeOK'
    BY <1>2 DEF VerifierTypeOK, ReachBarrier, verifyVars, signalVars, history
  <2>4. SignalTypeOK'
    BY <1>2 DEF SignalTypeOK, ReachBarrier, verifyVars, signalVars, history
  <2>5. HistoryTypeOK'
    BY <1>2 DEF HistoryTypeOK, ReachBarrier, verifyVars, signalVars, history
  <2>. QED
    BY <2>1, <2>2, <2>3, <2>4, <2>5
<1>3. CASE HearEcho(t)
  <2>1. DeskTypeOK'
    <3>1. CASE pending'[t] = {}
      BY <1>3, <3>1 DEF DeskTypeOK, HearEcho, Close
    <3>2. CASE pending'[t] # {}
      <4>1. inbox' = Tail(inbox) /\ inbox # <<>> /\ port' = port
        BY <1>3, <3>2 DEF HearEcho
      <4>2. inbox' \in Seq(Report)
        BY <4>1 DEF DeskTypeOK
      <4>. QED
        BY <1>3, <4>1, <4>2 DEF DeskTypeOK, HearEcho
    <3>. QED
      BY <3>1, <3>2
  <2>2. ThreadTypeOK'
    <3>1. pc' \in [Thread -> PCs]
      BY <1>3 DEF ThreadTypeOK, PCs, Writing, Listening, Thread, HearEcho, MixBurst, Burst, Goto
    <3>2. todo' \in [Thread -> Seq(Sendable)]
      <4>1. CASE pending'[t] = {}
        <5>1. MixBurst(t)
          BY <1>3, <4>1 DEF HearEcho
        <5>. QED
          BY <5>1, BurstsTyped DEF ThreadTypeOK, MixBurst, Burst
      <4>2. CASE pending'[t] # {}
        BY <1>3, <4>2 DEF ThreadTypeOK, HearEcho
      <4>. QED
        BY <4>1, <4>2
    <3>. QED
      BY <1>3, <3>1, <3>2 DEF ThreadTypeOK, HearEcho
  <2>3. VerifierTypeOK'
    BY <1>3 DEF VerifierTypeOK, HearEcho, verifyVars, signalVars, history
  <2>4. SignalTypeOK'
    BY <1>3 DEF SignalTypeOK, HearEcho, verifyVars, signalVars, history
  <2>5. HistoryTypeOK'
    BY <1>3 DEF HistoryTypeOK, HearEcho, verifyVars, signalVars, history
  <2>. QED
    BY <2>1, <2>2, <2>3, <2>4, <2>5
<1>4. CASE EchoTimeout(t)
  <2>1. DeskTypeOK'
    BY <1>4 DEF DeskTypeOK, EchoTimeout, Close
  <2>2. ThreadTypeOK'
    <3>1. pc' \in [Thread -> PCs]
      BY <1>4 DEF ThreadTypeOK, PCs, Writing, Listening, Thread, EchoTimeout, MixBurst, Burst, Goto
    <3>2. todo' \in [Thread -> Seq(Sendable)]
      BY <1>4, BurstsTyped DEF ThreadTypeOK, Thread, EchoTimeout, MixBurst, Burst, Goto
    <3>. QED
      BY <1>4, <3>1, <3>2 DEF ThreadTypeOK, EchoTimeout
  <2>3. VerifierTypeOK'
    BY <1>4 DEF VerifierTypeOK, EchoTimeout, verifyVars, signalVars, history
  <2>4. SignalTypeOK'
    BY <1>4 DEF SignalTypeOK, EchoTimeout, verifyVars, signalVars, history
  <2>5. HistoryTypeOK'
    BY <1>4 DEF HistoryTypeOK, EchoTimeout, verifyVars, signalVars, history
  <2>. QED
    BY <2>1, <2>2, <2>3, <2>4, <2>5
<1>5. CASE Settled(t)
  <2>1. DeskTypeOK'
    BY <1>5 DEF DeskTypeOK, Settled, deskVars
  <2>2. ThreadTypeOK'
    <3>1. pc' \in [Thread -> PCs]
      BY <1>5 DEF ThreadTypeOK, PCs, Writing, Listening, Thread, Settled, MixBurst, Burst, Goto
    <3>2. todo' \in [Thread -> Seq(Sendable)]
      BY <1>5, BurstsTyped DEF ThreadTypeOK, Thread, Settled, MixBurst, Burst, Goto
    <3>. QED
      BY <1>5, <3>1, <3>2 DEF ThreadTypeOK, Settled
  <2>3. VerifierTypeOK'
    BY <1>5 DEF VerifierTypeOK, Settled, verifyVars, signalVars, history
  <2>4. SignalTypeOK'
    BY <1>5 DEF SignalTypeOK, Settled, verifyVars, signalVars, history
  <2>5. HistoryTypeOK'
    BY <1>5 DEF HistoryTypeOK, Settled, verifyVars, signalVars, history
  <2>. QED
    BY <2>1, <2>2, <2>3, <2>4, <2>5
<1>. QED
  BY <1>1, <1>2, <1>3, <1>4, <1>5 DEF Apply

LEMMA TypeWindow ==
  ASSUME TypeOK, NEW t \in Thread, Window(t)
  PROVE  TypeOK'
<1>. USE DEF TypeOK
<1>1. CASE Listen(t)
  <2>1. DeskTypeOK'
    BY <1>1 DEF DeskTypeOK, Listen, Bind
  <2>2. ThreadTypeOK'
    <3>1. pc' \in [Thread -> PCs]
      BY <1>1 DEF ThreadTypeOK, PCs, Writing, Listening, Thread, Listen, Goto, Bind
    <3>2. todo' \in [Thread -> Seq(Sendable)]
      BY <1>1 DEF ThreadTypeOK, Thread, Listen, Goto
    <3>. QED
      BY <1>1, <3>1, <3>2 DEF ThreadTypeOK, Listen
  <2>3. VerifierTypeOK'
    BY <1>1 DEF VerifierTypeOK, Listen, verifyVars, signalVars, history
  <2>4. SignalTypeOK'
    BY <1>1 DEF SignalTypeOK, Listen, verifyVars, signalVars, history
  <2>5. HistoryTypeOK'
    BY <1>1 DEF HistoryTypeOK, Listen, verifyVars, signalVars, history
  <2>. QED
    BY <2>1, <2>2, <2>3, <2>4, <2>5
<1>2. CASE RequestDump(t)
  <2>1. DeskTypeOK'
    BY <1>2, PutRefreshTyped DEF RequestDump
  <2>2. ThreadTypeOK'
    <3>1. pc' \in [Thread -> PCs]
      BY <1>2 DEF ThreadTypeOK, PCs, Writing, Listening, Thread, RequestDump, Goto
    <3>2. todo' \in [Thread -> Seq(Sendable)]
      BY <1>2 DEF ThreadTypeOK, Thread, RequestDump, Goto
    <3>. QED
      BY <1>2, <3>1, <3>2 DEF ThreadTypeOK, RequestDump
  <2>3. VerifierTypeOK'
    BY <1>2 DEF VerifierTypeOK, RequestDump, verifyVars, signalVars
  <2>4. SignalTypeOK'
    BY <1>2 DEF SignalTypeOK, RequestDump, verifyVars, signalVars
  <2>5. HistoryTypeOK'
    BY <1>2 DEF HistoryTypeOK, RequestDump, verifyVars, signalVars
  <2>. QED
    BY <2>1, <2>2, <2>3, <2>4, <2>5
<1>3. CASE AwaitReport(t)
  <2>1. DeskTypeOK'
    BY <1>3 DEF DeskTypeOK, AwaitReport, deskVars
  <2>2. ThreadTypeOK'
    <3>1. pc' \in [Thread -> PCs]
      BY <1>3 DEF ThreadTypeOK, PCs, Writing, Listening, Thread, AwaitReport, Goto
    <3>2. todo' \in [Thread -> Seq(Sendable)]
      BY <1>3 DEF ThreadTypeOK, Thread, AwaitReport, Goto
    <3>. QED
      BY <1>3, <3>1, <3>2 DEF ThreadTypeOK, AwaitReport
  <2>3. VerifierTypeOK'
    BY <1>3 DEF VerifierTypeOK, AwaitReport, verifyVars, signalVars, history
  <2>4. SignalTypeOK'
    BY <1>3 DEF SignalTypeOK, AwaitReport, verifyVars, signalVars, history
  <2>5. HistoryTypeOK'
    BY <1>3 DEF HistoryTypeOK, AwaitReport, verifyVars, signalVars, history
  <2>. QED
    BY <2>1, <2>2, <2>3, <2>4, <2>5
<1>4. CASE NothingHeard(t)
  <2>1. DeskTypeOK'
    BY <1>4 DEF DeskTypeOK, NothingHeard, deskVars
  <2>2. ThreadTypeOK'
    <3>1. pc' \in [Thread -> PCs]
      BY <1>4 DEF ThreadTypeOK, PCs, Writing, Listening, Thread, NothingHeard, Goto
    <3>2. todo' \in [Thread -> Seq(Sendable)]
      BY <1>4 DEF ThreadTypeOK, Thread, NothingHeard, Goto
    <3>. QED
      BY <1>4, <3>1, <3>2 DEF ThreadTypeOK, NothingHeard
  <2>3. VerifierTypeOK'
    BY <1>4 DEF VerifierTypeOK, NothingHeard, verifyVars, signalVars, history
  <2>4. SignalTypeOK'
    BY <1>4 DEF SignalTypeOK, NothingHeard, verifyVars, signalVars, history
  <2>5. HistoryTypeOK'
    BY <1>4 DEF HistoryTypeOK, NothingHeard, verifyVars, signalVars, history
  <2>. QED
    BY <2>1, <2>2, <2>3, <2>4, <2>5
<1>5. CASE HearReport(t)
  <2>1. DeskTypeOK'
    BY <1>5 DEF DeskTypeOK, HearReport
  <2>2. ThreadTypeOK'
    <3>1. pc' \in [Thread -> PCs]
      BY <1>5 DEF ThreadTypeOK, PCs, Writing, Listening, Thread, HearReport, Goto, Absorb, ObserveLinks, Burst
    <3>2. todo' \in [Thread -> Seq(Sendable)]
      BY <1>5, BurstsTyped DEF ThreadTypeOK, Thread, HearReport, Goto, Absorb, ObserveLinks, Burst
    <3>. QED
      <4>1. Head(inbox) \in Report
        BY <1>5 DEF HearReport, DeskTypeOK
      <4>2. Absorb(t, Head(inbox))
        BY <1>5 DEF HearReport
      <4>3. ASSUME NEW m \in Report, Absorb(t, m)
            PROVE  /\ confirmed' \in [Thread -> SUBSET Reg]
                   /\ mismatched' \in [Thread -> SUBSET Reg]
        <5>1. m.reg \in Reg
          BY DEF Report
        <5>2. \/ confirmed' = confirmed
              \/ confirmed' = [confirmed EXCEPT ![t] = @ \union {m.reg}]
          BY <4>3 DEF Absorb
        <5>3. \/ mismatched' = mismatched
              \/ mismatched' = [mismatched EXCEPT ![t] = @ \union {m.reg}]
              \/ mismatched' = [mismatched EXCEPT ![t] = @ \ {m.reg}]
          BY <4>3 DEF Absorb
        <5>4. /\ confirmed[t] \union {m.reg} \in SUBSET Reg
              /\ mismatched[t] \union {m.reg} \in SUBSET Reg
              /\ mismatched[t] \ {m.reg} \in SUBSET Reg
          BY <5>1 DEF ThreadTypeOK
        <5>5. confirmed' \in [Thread -> SUBSET Reg]
          BY <5>2, <5>4 DEF ThreadTypeOK
        <5>6. mismatched' \in [Thread -> SUBSET Reg]
          BY <5>3, <5>4 DEF ThreadTypeOK
        <5>. QED
          BY <5>5, <5>6
      <4>4. /\ confirmed' \in [Thread -> SUBSET Reg]
            /\ mismatched' \in [Thread -> SUBSET Reg]
        BY <4>1, <4>2, <4>3
      <4>. QED
        BY <1>5, <3>1, <3>2, <4>4 DEF ThreadTypeOK, HearReport
  <2>3. VerifierTypeOK'
    BY <1>5 DEF VerifierTypeOK, HearReport, Absorb, ObserveLinks, signalVars, history
  <2>4. SignalTypeOK'
    BY <1>5 DEF SignalTypeOK, HearReport, Absorb, ObserveLinks, signalVars, history
  <2>5. HistoryTypeOK'
    BY <1>5 DEF HistoryTypeOK, HearReport, Absorb, ObserveLinks, signalVars, history
  <2>. QED
    BY <2>1, <2>2, <2>3, <2>4, <2>5
<1>6. CASE WindowStopped(t)
  <2>1. DeskTypeOK'
    BY <1>6 DEF DeskTypeOK, WindowStopped, CloseWindow, Close
  <2>2. ThreadTypeOK'
    <3>1. pc' \in [Thread -> PCs]
      BY <1>6 DEF ThreadTypeOK, PCs, Writing, Listening, Thread, WindowStopped, CloseWindow, Goto
    <3>2. todo' \in [Thread -> Seq(Sendable)]
      BY <1>6 DEF ThreadTypeOK, Thread, WindowStopped, CloseWindow, Goto
    <3>. QED
      BY <1>6, <3>1, <3>2 DEF ThreadTypeOK, WindowStopped, CloseWindow
  <2>3. VerifierTypeOK'
    BY <1>6 DEF VerifierTypeOK, WindowStopped, CloseWindow, verifyVars, signalVars, history
  <2>4. SignalTypeOK'
    BY <1>6 DEF SignalTypeOK, WindowStopped, CloseWindow, verifyVars, signalVars, history
  <2>5. HistoryTypeOK'
    BY <1>6 DEF HistoryTypeOK, WindowStopped, CloseWindow, verifyVars, signalVars, history
  <2>. QED
    BY <2>1, <2>2, <2>3, <2>4, <2>5
<1>7. CASE WindowComplete(t)
  <2>1. DeskTypeOK'
    BY <1>7 DEF DeskTypeOK, WindowComplete, CloseWindow, Close
  <2>2. ThreadTypeOK'
    <3>1. pc' \in [Thread -> PCs]
      BY <1>7 DEF ThreadTypeOK, PCs, Writing, Listening, Thread, WindowComplete, CloseWindow, Goto
    <3>2. todo' \in [Thread -> Seq(Sendable)]
      BY <1>7 DEF ThreadTypeOK, Thread, WindowComplete, CloseWindow, Goto
    <3>. QED
      BY <1>7, <3>1, <3>2 DEF ThreadTypeOK, WindowComplete, CloseWindow
  <2>3. VerifierTypeOK'
    BY <1>7 DEF VerifierTypeOK, WindowComplete, CloseWindow, verifyVars, signalVars, history
  <2>4. SignalTypeOK'
    BY <1>7 DEF SignalTypeOK, WindowComplete, CloseWindow, verifyVars, signalVars, history
  <2>5. HistoryTypeOK'
    BY <1>7 DEF HistoryTypeOK, WindowComplete, CloseWindow, verifyVars, signalVars, history
  <2>. QED
    BY <2>1, <2>2, <2>3, <2>4, <2>5
<1>8. CASE WindowDeadline(t)
  <2>1. DeskTypeOK'
    BY <1>8 DEF DeskTypeOK, WindowDeadline, CloseWindow, Close
  <2>2. ThreadTypeOK'
    <3>1. pc' \in [Thread -> PCs]
      BY <1>8 DEF ThreadTypeOK, PCs, Writing, Listening, Thread, WindowDeadline, CloseWindow, Goto
    <3>2. todo' \in [Thread -> Seq(Sendable)]
      BY <1>8 DEF ThreadTypeOK, Thread, WindowDeadline, CloseWindow, Goto
    <3>. QED
      BY <1>8, <3>1, <3>2 DEF ThreadTypeOK, WindowDeadline, CloseWindow
  <2>3. VerifierTypeOK'
    BY <1>8 DEF VerifierTypeOK, WindowDeadline, CloseWindow, verifyVars, signalVars, history
  <2>4. SignalTypeOK'
    BY <1>8 DEF SignalTypeOK, WindowDeadline, CloseWindow, verifyVars, signalVars, history
  <2>5. HistoryTypeOK'
    BY <1>8 DEF HistoryTypeOK, WindowDeadline, CloseWindow, verifyVars, signalVars, history
  <2>. QED
    BY <2>1, <2>2, <2>3, <2>4, <2>5
<1>. QED
  BY <1>1, <1>2, <1>3, <1>4, <1>5, <1>6, <1>7, <1>8 DEF Window

LEMMA TypeVerifier ==
  ASSUME TypeOK, VerifyStep, ~Apply("verify"), ~Window("verify")
  PROVE  TypeOK'
<1>. USE DEF TypeOK
<1>1. CASE SettlingEnds
  <2>1. DeskTypeOK'
    BY <1>1 DEF DeskTypeOK, SettlingEnds, deskVars
  <2>2. ThreadTypeOK'
    <3>1. pc' \in [Thread -> PCs]
      BY <1>1 DEF ThreadTypeOK, PCs, Writing, Listening, Thread, SettlingEnds, Goto, VerifierEnds
    <3>2. todo' \in [Thread -> Seq(Sendable)]
      BY <1>1 DEF ThreadTypeOK, Thread, SettlingEnds, Goto, VerifierEnds
    <3>. QED
      BY <1>1, <3>1, <3>2 DEF ThreadTypeOK, SettlingEnds
  <2>3. VerifierTypeOK'
    BY <1>1 DEF VerifierTypeOK, SettlingEnds, VerifierEnds, signalVars, history
  <2>4. SignalTypeOK'
    BY <1>1 DEF SignalTypeOK, SettlingEnds, VerifierEnds, signalVars, history
  <2>5. HistoryTypeOK'
    BY <1>1 DEF HistoryTypeOK, SettlingEnds, VerifierEnds, signalVars, history
  <2>. QED
    BY <2>1, <2>2, <2>3, <2>4, <2>5
<1>2. CASE VerifyBlind
  <2>1. DeskTypeOK'
    BY <1>2, PutRefreshTyped DEF VerifyBlind, DeskTypeOK
  <2>2. ThreadTypeOK'
    <3>1. pc' \in [Thread -> PCs]
      BY <1>2 DEF ThreadTypeOK, PCs, Writing, Listening, Thread, VerifyBlind, Goto, VerifierEnds
    <3>2. todo' \in [Thread -> Seq(Sendable)]
      BY <1>2 DEF ThreadTypeOK, Thread, VerifyBlind, Goto, VerifierEnds
    <3>. QED
      BY <1>2, <3>1, <3>2 DEF ThreadTypeOK, VerifyBlind
  <2>3. VerifierTypeOK'
    BY <1>2 DEF VerifierTypeOK, VerifyBlind, VerifierEnds, signalVars, history
  <2>4. SignalTypeOK'
    BY <1>2 DEF SignalTypeOK, VerifyBlind, VerifierEnds, signalVars, history
  <2>5. HistoryTypeOK'
    BY <1>2 DEF HistoryTypeOK, VerifyBlind, VerifierEnds, signalVars, history
  <2>. QED
    BY <2>1, <2>2, <2>3, <2>4, <2>5
<1>3. CASE BlindDelayEnds
  <2>1. DeskTypeOK'
    BY <1>3 DEF DeskTypeOK, BlindDelayEnds, deskVars
  <2>2. ThreadTypeOK'
    <3>1. pc' \in [Thread -> PCs]
      BY <1>3 DEF ThreadTypeOK, PCs, Writing, Listening, Thread, BlindDelayEnds, Burst, Goto, VerifierEnds
    <3>2. todo' \in [Thread -> Seq(Sendable)]
      BY <1>3, BurstsTyped DEF ThreadTypeOK, Thread, BlindDelayEnds, Burst, Goto, VerifierEnds
    <3>. QED
      BY <1>3, <3>1, <3>2 DEF ThreadTypeOK, BlindDelayEnds
  <2>3. VerifierTypeOK'
    BY <1>3 DEF VerifierTypeOK, BlindDelayEnds, VerifierEnds, signalVars, history
  <2>4. SignalTypeOK'
    BY <1>3 DEF SignalTypeOK, BlindDelayEnds, VerifierEnds, signalVars, history
  <2>5. HistoryTypeOK'
    BY <1>3 DEF HistoryTypeOK, BlindDelayEnds, VerifierEnds, signalVars, history
  <2>. QED
    BY <2>1, <2>2, <2>3, <2>4, <2>5
<1>4. CASE VerifyJudge
  <2>1. DeskTypeOK'
    BY <1>4 DEF DeskTypeOK, VerifyJudge, deskVars
  <2>2. ThreadTypeOK'
    <3>1. pc' \in [Thread -> PCs]
      BY <1>4 DEF ThreadTypeOK, PCs, Writing, Listening, Thread, VerifyJudge, Goto, VerifierEnds, ReapplyWithoutConfirmation, Burst
    <3>2. todo' \in [Thread -> Seq(Sendable)]
      BY <1>4, BurstsTyped DEF ThreadTypeOK, Thread, VerifyJudge, Goto, VerifierEnds, ReapplyWithoutConfirmation, Burst
    <3>. QED
      BY <1>4, <3>1, <3>2 DEF ThreadTypeOK, VerifyJudge
  <2>3. VerifierTypeOK'
    BY <1>4 DEF VerifierTypeOK, VerifyJudge, VerifierEnds, ReapplyWithoutConfirmation, signalVars, history
  <2>4. SignalTypeOK'
    BY <1>4 DEF SignalTypeOK, VerifyJudge, VerifierEnds, ReapplyWithoutConfirmation, signalVars, history
  <2>5. HistoryTypeOK'
    BY <1>4 DEF HistoryTypeOK, VerifyJudge, VerifierEnds, ReapplyWithoutConfirmation, signalVars, history
  <2>. QED
    BY <2>1, <2>2, <2>3, <2>4, <2>5
<1>5. CASE VerifyReport
  <2>1. DeskTypeOK'
    BY <1>5 DEF DeskTypeOK, VerifyReport, deskVars
  <2>2. ThreadTypeOK'
    <3>1. pc' \in [Thread -> PCs]
      BY <1>5 DEF ThreadTypeOK, PCs, Writing, Listening, Thread, VerifyReport, StartApply, Burst, Goto, VerifierEnds
    <3>2. todo' \in [Thread -> Seq(Sendable)]
      <4>1. CASE StartApply("verify", Kept("verify"))
        BY <4>1, BurstsTyped DEF ThreadTypeOK, Thread, StartApply, Burst
      <4>2. CASE UNCHANGED todo
        BY <4>2 DEF ThreadTypeOK
      <4>. QED
        BY <1>5, <4>1, <4>2 DEF VerifyReport
    <3>3. skip' \in [Thread -> SUBSET Reg]
      <4>1. CASE StartApply("verify", Kept("verify"))
        BY <4>1, BurstsTyped DEF ThreadTypeOK, Thread, StartApply
      <4>2. CASE UNCHANGED skip
        BY <4>2 DEF ThreadTypeOK
      <4>. QED
        BY <1>5, <4>1, <4>2 DEF VerifyReport
    <3>. QED
      BY <1>5, <3>1, <3>2, <3>3 DEF ThreadTypeOK, VerifyReport
  <2>3. VerifierTypeOK'
    BY <1>5 DEF VerifierTypeOK, VerifyReport, VerifierEnds, signalVars, history
  <2>4. SignalTypeOK'
    BY <1>5 DEF SignalTypeOK, VerifyReport, VerifierEnds, signalVars, history
  <2>5. HistoryTypeOK'
    BY <1>5 DEF HistoryTypeOK, VerifyReport, VerifierEnds, signalVars, history
  <2>. QED
    BY <2>1, <2>2, <2>3, <2>4, <2>5
<1>6. CASE VerifyBurstOut
  <2>1. DeskTypeOK'
    BY <1>6 DEF DeskTypeOK, VerifyBurstOut, deskVars
  <2>2. ThreadTypeOK'
    <3>1. pc' \in [Thread -> PCs]
      BY <1>6 DEF ThreadTypeOK, PCs, Writing, Listening, Thread, VerifyBurstOut, Goto, VerifierEnds
    <3>2. todo' \in [Thread -> Seq(Sendable)]
      BY <1>6 DEF ThreadTypeOK, Thread, VerifyBurstOut, Goto, VerifierEnds
    <3>. QED
      BY <1>6, <3>1, <3>2 DEF ThreadTypeOK, VerifyBurstOut
  <2>3. VerifierTypeOK'
    BY <1>6 DEF VerifierTypeOK, VerifyBurstOut, VerifierEnds, signalVars, history
  <2>4. SignalTypeOK'
    BY <1>6 DEF SignalTypeOK, VerifyBurstOut, VerifierEnds, signalVars, history
  <2>5. HistoryTypeOK'
    BY <1>6 DEF HistoryTypeOK, VerifyBurstOut, VerifierEnds, signalVars, history
  <2>. QED
    BY <2>1, <2>2, <2>3, <2>4, <2>5
<1>. QED
  BY <1>1, <1>2, <1>3, <1>4, <1>5, <1>6 DEF VerifyStep

LEMMA TypeMain ==
  ASSUME TypeOK, MainStep, ~Apply("main"), ~Window("main")
  PROVE  TypeOK'
<1>. USE DEF TypeOK
<1>1. CASE BackendAwaited
  <2>1. DeskTypeOK'
    BY <1>1 DEF DeskTypeOK, BackendAwaited, deskVars
  <2>2. ThreadTypeOK'
    <3>1. pc' \in [Thread -> PCs]
      BY <1>1 DEF ThreadTypeOK, PCs, Writing, Listening, Thread, BackendAwaited, StartApply, Burst, Goto
    <3>2. todo' \in [Thread -> Seq(Sendable)]
      BY <1>1, BurstsTyped DEF ThreadTypeOK, Thread, BackendAwaited, StartApply, Burst, Goto
    <3>. QED
      BY <1>1, <3>1, <3>2 DEF ThreadTypeOK, BackendAwaited, StartApply
  <2>3. VerifierTypeOK'
    BY <1>1 DEF VerifierTypeOK, BackendAwaited, verifyVars, history
  <2>4. SignalTypeOK'
    BY <1>1 DEF SignalTypeOK, BackendAwaited, verifyVars, history
  <2>5. HistoryTypeOK'
    BY <1>1 DEF HistoryTypeOK, BackendAwaited, verifyVars, history
  <2>. QED
    BY <2>1, <2>2, <2>3, <2>4, <2>5
<1>2. CASE FirstApplyOut
  <2>1. DeskTypeOK'
    BY <1>2 DEF DeskTypeOK, FirstApplyOut, deskVars
  <2>2. ThreadTypeOK'
    <3>1. pc' \in [Thread -> PCs]
      BY <1>2 DEF ThreadTypeOK, PCs, Writing, Listening, Thread, FirstApplyOut
    <3>2. todo' \in [Thread -> Seq(Sendable)]
      BY <1>2 DEF ThreadTypeOK, Thread, FirstApplyOut
    <3>. QED
      BY <1>2, <3>1, <3>2 DEF ThreadTypeOK, FirstApplyOut
  <2>3. VerifierTypeOK'
    BY <1>2, BurstsTyped DEF VerifierTypeOK, FirstApplyOut, history, ThreadTypeOK, Thread
  <2>4. SignalTypeOK'
    BY <1>2 DEF SignalTypeOK, FirstApplyOut, history
  <2>5. HistoryTypeOK'
    BY <1>2 DEF HistoryTypeOK, FirstApplyOut, history
  <2>. QED
    BY <2>1, <2>2, <2>3, <2>4, <2>5
<1>3. CASE ReloadApplyOut
  <2>1. DeskTypeOK'
    BY <1>3 DEF DeskTypeOK, ReloadApplyOut, deskVars
  <2>2. ThreadTypeOK'
    <3>1. pc' \in [Thread -> PCs]
      BY <1>3 DEF ThreadTypeOK, PCs, Writing, Listening, Thread, ReloadApplyOut, Goto
    <3>2. todo' \in [Thread -> Seq(Sendable)]
      BY <1>3 DEF ThreadTypeOK, Thread, ReloadApplyOut, Goto
    <3>. QED
      BY <1>3, <3>1, <3>2 DEF ThreadTypeOK, ReloadApplyOut
  <2>3. VerifierTypeOK'
    BY <1>3 DEF VerifierTypeOK, ReloadApplyOut, verifyVars, signalVars
  <2>4. SignalTypeOK'
    BY <1>3 DEF SignalTypeOK, ReloadApplyOut, verifyVars, signalVars
  <2>5. HistoryTypeOK'
    BY <1>3 DEF HistoryTypeOK, ReloadApplyOut, verifyVars, signalVars
  <2>. QED
    BY <2>1, <2>2, <2>3, <2>4, <2>5
<1>4. CASE ChildWaited
  <2>1. DeskTypeOK'
    BY <1>4 DEF DeskTypeOK, ChildWaited, deskVars
  <2>2. ThreadTypeOK'
    <3>1. pc' \in [Thread -> PCs]
      BY <1>4 DEF ThreadTypeOK, PCs, Writing, Listening, Thread, ChildWaited, Goto
    <3>2. todo' \in [Thread -> Seq(Sendable)]
      BY <1>4 DEF ThreadTypeOK, Thread, ChildWaited, Goto
    <3>. QED
      BY <1>4, <3>1, <3>2 DEF ThreadTypeOK, ChildWaited
  <2>3. VerifierTypeOK'
    BY <1>4 DEF VerifierTypeOK, ChildWaited, verifyVars, signalVars, history
  <2>4. SignalTypeOK'
    BY <1>4 DEF SignalTypeOK, ChildWaited, verifyVars, signalVars, history
  <2>5. HistoryTypeOK'
    BY <1>4 DEF HistoryTypeOK, ChildWaited, verifyVars, signalVars, history
  <2>. QED
    BY <2>1, <2>2, <2>3, <2>4, <2>5
<1>5. CASE PollReload
  <2>1. DeskTypeOK'
    BY <1>5 DEF DeskTypeOK, PollReload, deskVars
  <2>2. ThreadTypeOK'
    <3>1. pc' \in [Thread -> PCs]
      BY <1>5 DEF ThreadTypeOK, PCs, Writing, Listening, Thread, PollReload, Goto
    <3>2. todo' \in [Thread -> Seq(Sendable)]
      BY <1>5 DEF ThreadTypeOK, Thread, PollReload, Goto
    <3>. QED
      BY <1>5, <3>1, <3>2 DEF ThreadTypeOK, PollReload
  <2>3. VerifierTypeOK'
    BY <1>5 DEF VerifierTypeOK, PollReload, verifyVars, history
  <2>4. SignalTypeOK'
    BY <1>5 DEF SignalTypeOK, PollReload, verifyVars, history
  <2>5. HistoryTypeOK'
    BY <1>5 DEF HistoryTypeOK, PollReload, verifyVars, history
  <2>. QED
    BY <2>1, <2>2, <2>3, <2>4, <2>5
<1>6. CASE PollStop
  <2>1. DeskTypeOK'
    BY <1>6 DEF DeskTypeOK, PollStop, deskVars
  <2>2. ThreadTypeOK'
    <3>1. pc' \in [Thread -> PCs]
      BY <1>6 DEF ThreadTypeOK, PCs, Writing, Listening, Thread, PollStop, Goto, AtStopCheck
    <3>2. todo' \in [Thread -> Seq(Sendable)]
      BY <1>6 DEF ThreadTypeOK, Thread, PollStop, Goto, AtStopCheck
    <3>. QED
      BY <1>6, <3>1, <3>2 DEF ThreadTypeOK, PollStop
  <2>3. VerifierTypeOK'
    BY <1>6 DEF VerifierTypeOK, PollStop, AtStopCheck, verifyVars, history
  <2>4. SignalTypeOK'
    BY <1>6 DEF SignalTypeOK, PollStop, AtStopCheck, verifyVars, history
  <2>5. HistoryTypeOK'
    BY <1>6 DEF HistoryTypeOK, PollStop, AtStopCheck, verifyVars, history
  <2>. QED
    BY <2>1, <2>2, <2>3, <2>4, <2>5
<1>7. CASE Escalate
  <2>1. DeskTypeOK'
    BY <1>7 DEF DeskTypeOK, Escalate
  <2>2. ThreadTypeOK'
    <3>1. pc' \in [Thread -> PCs]
      BY <1>7 DEF ThreadTypeOK, PCs, Writing, Listening, Thread, Escalate, Goto, AtStopCheck
    <3>2. todo' \in [Thread -> Seq(Sendable)]
      BY <1>7 DEF ThreadTypeOK, Thread, Escalate, Goto, AtStopCheck
    <3>. QED
      BY <1>7, <3>1, <3>2 DEF ThreadTypeOK, Escalate
  <2>3. VerifierTypeOK'
    BY <1>7 DEF VerifierTypeOK, Escalate, AtStopCheck, verifyVars, signalVars, history
  <2>4. SignalTypeOK'
    BY <1>7 DEF SignalTypeOK, Escalate, AtStopCheck, verifyVars, signalVars, history
  <2>5. HistoryTypeOK'
    BY <1>7 DEF HistoryTypeOK, Escalate, AtStopCheck, verifyVars, signalVars, history
  <2>. QED
    BY <2>1, <2>2, <2>3, <2>4, <2>5
<1>8. CASE ReadConfig
  <2>1. DeskTypeOK'
    BY <1>8 DEF DeskTypeOK, ReadConfig, deskVars
  <2>2. ThreadTypeOK'
    <3>1. pc' \in [Thread -> PCs]
      BY <1>8 DEF ThreadTypeOK, PCs, Writing, Listening, Thread, ReadConfig, Goto
    <3>2. todo' \in [Thread -> Seq(Sendable)]
      BY <1>8 DEF ThreadTypeOK, Thread, ReadConfig, Goto
    <3>. QED
      <4>1. CASE file = Broken
        BY <1>8, <3>1, <3>2, <4>1 DEF ThreadTypeOK, ReadConfig
      <4>2. CASE file # Broken
        <5>1. file \in Configs
          BY <4>2 DEF SignalTypeOK, Configs
        <5>2. cfg' = [cfg EXCEPT !["main"] = file]
          BY <1>8, <4>2 DEF ReadConfig
        <5>. QED
          BY <1>8, <3>1, <3>2, <5>1, <5>2 DEF ThreadTypeOK, ReadConfig
      <4>. QED
        BY <4>1, <4>2
  <2>3. VerifierTypeOK'
    BY <1>8 DEF VerifierTypeOK, ReadConfig, verifyVars, signalVars
  <2>4. SignalTypeOK'
    BY <1>8 DEF SignalTypeOK, ReadConfig, verifyVars, signalVars
  <2>5. HistoryTypeOK'
    BY <1>8 DEF HistoryTypeOK, ReadConfig, verifyVars, signalVars
  <2>. QED
    BY <2>1, <2>2, <2>3, <2>4, <2>5
<1>9. CASE ReconcileRefused
  <2>1. DeskTypeOK'
    BY <1>9 DEF DeskTypeOK, ReconcileRefused, deskVars
  <2>2. ThreadTypeOK'
    <3>1. pc' \in [Thread -> PCs]
      BY <1>9 DEF ThreadTypeOK, PCs, Writing, Listening, Thread, ReconcileRefused, Goto
    <3>2. todo' \in [Thread -> Seq(Sendable)]
      BY <1>9 DEF ThreadTypeOK, Thread, ReconcileRefused, Goto
    <3>. QED
      BY <1>9, <3>1, <3>2 DEF ThreadTypeOK, ReconcileRefused
  <2>3. VerifierTypeOK'
    BY <1>9 DEF VerifierTypeOK, ReconcileRefused, verifyVars, signalVars, history
  <2>4. SignalTypeOK'
    BY <1>9 DEF SignalTypeOK, ReconcileRefused, verifyVars, signalVars, history
  <2>5. HistoryTypeOK'
    BY <1>9 DEF HistoryTypeOK, ReconcileRefused, verifyVars, signalVars, history
  <2>. QED
    BY <2>1, <2>2, <2>3, <2>4, <2>5
<1>10. CASE ReconcileJudge
  <2>1. DeskTypeOK'
    BY <1>10 DEF DeskTypeOK, ReconcileJudge, deskVars
  <2>2. ThreadTypeOK'
    <3>1. pc' \in [Thread -> PCs]
      BY <1>10 DEF ThreadTypeOK, PCs, Writing, Listening, Thread, ReconcileJudge, StartApply, Burst, Goto
    <3>2. todo' \in [Thread -> Seq(Sendable)]
      <4>1. CASE StartApply("main", Kept("main"))
        BY <4>1, BurstsTyped DEF ThreadTypeOK, Thread, StartApply, Burst
      <4>2. CASE UNCHANGED todo
        BY <4>2 DEF ThreadTypeOK
      <4>. QED
        BY <1>10, <4>1, <4>2 DEF ReconcileJudge
    <3>3. skip' \in [Thread -> SUBSET Reg]
      <4>1. CASE StartApply("main", Kept("main"))
        BY <4>1, BurstsTyped DEF ThreadTypeOK, Thread, StartApply
      <4>2. CASE UNCHANGED skip
        BY <4>2 DEF ThreadTypeOK
      <4>. QED
        BY <1>10, <4>1, <4>2 DEF ReconcileJudge
    <3>. QED
      BY <1>10, <3>1, <3>2, <3>3 DEF ThreadTypeOK, ReconcileJudge
  <2>3. VerifierTypeOK'
    BY <1>10 DEF VerifierTypeOK, ReconcileJudge, verifyVars, signalVars
  <2>4. SignalTypeOK'
    BY <1>10 DEF SignalTypeOK, ReconcileJudge, verifyVars, signalVars
  <2>5. HistoryTypeOK'
    <3>1. applied' \in [config : Configs, done : BOOLEAN, alone : BOOLEAN]
      <4>1. Applied(cfg["main"], FALSE, pc["verify"] \in {"none", "done"})
              \in [config : Configs, done : BOOLEAN, alone : BOOLEAN]
        BY DEF Applied, ThreadTypeOK, Thread
      <4>2. \/ applied' = Applied(cfg["main"], FALSE, pc["verify"] \in {"none", "done"})
            \/ applied' = applied
        BY <1>10 DEF ReconcileJudge
      <4>. QED
        BY <4>1, <4>2 DEF HistoryTypeOK
    <3>. QED
      BY <1>10, <3>1 DEF HistoryTypeOK, ReconcileJudge
  <2>. QED
    BY <2>1, <2>2, <2>3, <2>4, <2>5
<1>11. CASE Exits
  <2>1. DeskTypeOK'
    <3>1. CASE port = "verify"
      BY <1>11, <3>1 DEF DeskTypeOK, Exits, Close
    <3>2. CASE port # "verify"
      BY <1>11, <3>2 DEF DeskTypeOK, Exits
    <3>. QED
      BY <3>1, <3>2
  <2>2. ThreadTypeOK'
    <3>1. pc' \in [Thread -> PCs]
      BY <1>11 DEF ThreadTypeOK, PCs, Writing, Listening, Thread, Exits
    <3>2. todo' \in [Thread -> Seq(Sendable)]
      BY <1>11 DEF ThreadTypeOK, Thread, Exits
    <3>. QED
      BY <1>11, <3>1, <3>2 DEF ThreadTypeOK, Exits
  <2>3. VerifierTypeOK'
    BY <1>11 DEF VerifierTypeOK, Exits, verifyVars, signalVars, history
  <2>4. SignalTypeOK'
    BY <1>11 DEF SignalTypeOK, Exits, verifyVars, signalVars, history
  <2>5. HistoryTypeOK'
    BY <1>11 DEF HistoryTypeOK, Exits, verifyVars, signalVars, history
  <2>. QED
    BY <2>1, <2>2, <2>3, <2>4, <2>5
<1>. QED
  BY <1>1, <1>2, <1>3, <1>4, <1>5, <1>6, <1>7, <1>8, <1>9, <1>10, <1>11 DEF MainStep

LEMMA TypeEnvironment ==
  ASSUME TypeOK, Environment, UNCHANGED <<threadVars, verifyVars, signalVars>>
  PROVE  TypeOK'
<1>. USE DEF TypeOK
<1>1. ThreadTypeOK' /\ VerifierTypeOK' /\ SignalTypeOK'
  BY DEF ThreadTypeOK, VerifierTypeOK, SignalTypeOK, threadVars, verifyVars, signalVars
<1>2. CASE DumpNext /\ UNCHANGED history
  <2>1. DeskTypeOK'
    <3>1. Head(dump) \in Reg /\ Tail(dump) \in Seq(Reg)
      BY <1>2 DEF DumpNext, DeskTypeOK
    <3>2. <<Message(Head(dump), dev[Head(dump)])>> \in Seq(Report)
      BY <3>1 DEF Message, Report, DeskTypeOK
    <3>. QED
      BY <1>2, <3>1, <3>2 DEF DumpNext, DeskTypeOK
  <2>. QED
    BY <1>1, <1>2, <2>1 DEF HistoryTypeOK, history
<1>3. CASE Deliver /\ UNCHANGED history
  <2>1. DeskTypeOK'
    <3>1. Head(wire) \in Report /\ Tail(wire) \in Seq(Report)
      BY <1>3 DEF Deliver, DeskTypeOK
    <3>2. PICK lost \in BOOLEAN :
            /\ MayLose(lost)
            /\ view' = IF Head(wire).reg \in LinkRegs
                       THEN [view EXCEPT ![Head(wire).reg] = Head(wire).args] ELSE view
            /\ inbox' = IF port \in Thread /\ ~lost THEN Append(inbox, Head(wire)) ELSE inbox
      BY <1>3 DEF Deliver
    <3>3. drops' \in 0 .. MaxDrops
      BY <3>2, DeskConstants DEF MayLose, DeskTypeOK
    <3>4. inbox' \in Seq(Report)
      BY <3>1, <3>2 DEF DeskTypeOK
    <3>5. view' \in [LinkRegs -> Values]
      BY <3>1, <3>2 DEF Report, DeskTypeOK
    <3>. QED
      BY <1>3, <3>1, <3>3, <3>4, <3>5 DEF Deliver, DeskTypeOK
  <2>. QED
    BY <1>1, <1>3, <2>1 DEF HistoryTypeOK, history
<1>4. CASE (BackendBinds \/ BackendDies) /\ UNCHANGED history
  <2>1. HistoryTypeOK'
    BY <1>4 DEF HistoryTypeOK, history
  <2>2. CASE BackendBinds
    BY <1>1, <2>1, <2>2 DEF BackendBinds, DeskTypeOK
  <2>3. CASE BackendDies
    BY <1>1, <2>1, <2>3 DEF BackendDies, DeskTypeOK
  <2>. QED
    BY <1>4, <2>2, <2>3
<1>5. CASE (GuiOpens \/ GuiCloses) /\ UNCHANGED history
  BY <1>1, <1>5 DEF GuiOpens, GuiCloses, DeskTypeOK, HistoryTypeOK, history
<1>6. CASE Hand
  <2>1. PICK r \in HandRegs : HandTurns(r)
    BY <1>6 DEF Hand
  <2>2. PICK v \in FaderValues :
          dev' = [dev EXCEPT ![r] = v] /\ wire' = Echoed(Message(r, v))
    BY <2>1 DEF HandTurns
  <2>3. r \in Reg /\ v \in Values
    BY DeskConstants
  <2>4. wire' \in Seq(Report)
    <3>1. Message(r, v) \in Report
      BY <2>3 DEF Message, Report
    <3>. QED
      BY <2>2, <3>1 DEF Echoed, DeskTypeOK
  <2>5. turns' \in 0 .. MaxTurns
    BY <2>1, DeskConstants DEF HandTurns, DeskTypeOK
  <2>6. DeskTypeOK'
    BY <2>1, <2>2, <2>3, <2>4, <2>5 DEF HandTurns, DeskTypeOK
  <2>7. HistoryTypeOK'
    BY <1>6 DEF Hand, MovedBy, HistoryTypeOK
  <2>. QED
    BY <1>1, <2>6, <2>7
<1>. QED
  BY <1>2, <1>3, <1>4, <1>5, <1>6 DEF Environment, DeskStep

LEMMA TypeSignals ==
  ASSUME TypeOK, StopAsked \/ HupAsked
  PROVE  TypeOK'
<1>. USE DEF TypeOK
<1>1. DeskTypeOK' /\ ThreadTypeOK' /\ VerifierTypeOK'
  BY DEF StopAsked, HupAsked, DeskTypeOK, ThreadTypeOK, VerifierTypeOK,
         deskVars, threadVars, verifyVars
<1>2. SignalTypeOK'
  BY DEF StopAsked, HupAsked, SignalTypeOK
<1>3. HistoryTypeOK'
  <2>1. hups' \in 0 .. MaxHups
    BY SessionConstants DEF StopAsked, HupAsked, HistoryTypeOK, history
  <2>2. unread' \in BOOLEAN
    BY DEF StopAsked, HupAsked, HistoryTypeOK, history
  <2>3. UNCHANGED <<moved, applied>>
    BY DEF StopAsked, HupAsked, history
  <2>. QED
    BY <2>1, <2>2, <2>3 DEF HistoryTypeOK
<1>. QED
  BY <1>1, <1>2, <1>3

LEMMA TypeInit == Init => TypeOK
<1>. SUFFICES ASSUME Init PROVE TypeOK
  OBVIOUS
<1>1. DeskTypeOK
  BY DeskConstants DEF Init, DeskInit, DeskTypeOK
<1>2. PICK config \in Startups : cfg = [t \in Thread |-> config]
  BY DEF Init
<1>3. config \in Configs
  BY <1>2 DEF Configs
<1>4. ThreadTypeOK
  BY <1>2, <1>3 DEF Init, ThreadTypeOK, PCs
<1>5. VerifierTypeOK
  <2>1. attempt = 1 /\ pendingLinks = {} /\ reapplied = FALSE /\ verdict = "none"
    BY DEF Init
  <2>. QED
    BY <2>1, 1 \in 1 .. 2, {} \subseteq Report DEF VerifierTypeOK
<1>6. SignalTypeOK
  BY <1>2, <1>3 DEF Init, SignalTypeOK, Thread
<1>7. HistoryTypeOK
  <2>1. /\ hups = 0 /\ unread = FALSE /\ moved = [t \in Thread |-> {}]
        /\ applied = Applied(cfg["main"], FALSE, FALSE)
    BY DEF Init
  <2>2. cfg["main"] \in Configs
    BY <1>2, <1>3 DEF Thread
  <2>. QED
    <3>1. hups \in 0 .. MaxHups
      BY <2>1, SessionConstants
    <3>2. moved \in [Thread -> SUBSET Reg] /\ unread \in BOOLEAN
      BY <2>1
    <3>3. applied \in [config : Configs, done : BOOLEAN, alone : BOOLEAN]
      BY <2>1, <2>2 DEF Applied
    <3>. QED
      BY <3>1, <3>2, <3>3 DEF HistoryTypeOK
<1>. QED
  BY <1>1, <1>4, <1>5, <1>6, <1>7 DEF TypeOK

LEMMA TypeStep == TypeOK /\ [Next]_vars => TypeOK'
<1>. SUFFICES ASSUME TypeOK, [Next]_vars PROVE TypeOK'
  OBVIOUS
<1>. "main" \in Thread /\ "verify" \in Thread
  BY DEF Thread
<1>1. CASE MainStep
  BY <1>1, TypeApply, TypeWindow, TypeMain
<1>2. CASE VerifyStep
  BY <1>2, TypeApply, TypeWindow, TypeVerifier
<1>3. CASE StopAsked \/ HupAsked
  BY <1>3, TypeSignals
<1>4. CASE Environment /\ UNCHANGED <<threadVars, verifyVars, signalVars>>
  BY <1>4, TypeEnvironment
<1>5. CASE UNCHANGED vars
  BY <1>5 DEF vars, deskVars, threadVars, verifyVars, signalVars, history, TypeOK,
              DeskTypeOK, ThreadTypeOK, VerifierTypeOK, SignalTypeOK, HistoryTypeOK
<1>. QED
  BY <1>1, <1>2, <1>3, <1>4, <1>5 DEF Next

\* Whatever the registers, the configurations and the signals: bursts hold
\* only messages the device knows, and what a window has seen is registers.
THEOREM TypeCorrect == Spec => []TypeOK
<1>1. Init => TypeOK
  BY TypeInit
<1>2. TypeOK /\ [Next]_vars => TypeOK'
  BY TypeStep
<1>. QED
  BY <1>1, <1>2, PTL DEF Spec

----------------------------------------------------------------------------
(* The verifier starts with READY, and owes the mix until it has written it *)
(* (unless nothing has to be linked): what the next two results rest on.   *)

VerifierAfterReady == ready \/ pc["verify"] = "none"

ReapplyOwed ==
  /\ pc["verify"] = "none" => ~reapplied
  /\ pc["verify"] # "none" /\ ~reapplied => AwaitedOf[cfg["verify"]] # {}

StartInv == VerifierAfterReady /\ ReapplyOwed

LEMMA StartInApply ==
  ASSUME TypeOK, StartInv, NEW t \in Thread, Apply(t)
  PROVE  StartInv'
<1>. USE DEF TypeOK, ThreadTypeOK, StartInv, VerifierAfterReady, ReapplyOwed, Thread
<1>1. CASE SendNext(t)
  BY <1>1 DEF SendNext, verifyVars, signalVars
<1>2. CASE ReachBarrier(t)
  BY <1>2 DEF ReachBarrier, MixBurst, Burst, Goto, Bind, verifyVars, signalVars
<1>3. CASE HearEcho(t)
  BY <1>3 DEF HearEcho, MixBurst, Burst, Goto, verifyVars, signalVars
<1>4. CASE EchoTimeout(t)
  BY <1>4 DEF EchoTimeout, MixBurst, Burst, Goto, verifyVars, signalVars
<1>5. CASE Settled(t)
  BY <1>5 DEF Settled, MixBurst, Burst, Goto, verifyVars, signalVars
<1>. QED
  BY <1>1, <1>2, <1>3, <1>4, <1>5 DEF Apply

LEMMA StartInWindow ==
  ASSUME TypeOK, StartInv, NEW t \in Thread, Window(t)
  PROVE  StartInv'
<1>. USE DEF TypeOK, ThreadTypeOK, StartInv, VerifierAfterReady, ReapplyOwed, Thread
<1>1. CASE Listen(t)
  BY <1>1 DEF Listen, Bind, Goto, verifyVars, signalVars
<1>2. CASE RequestDump(t)
  BY <1>2 DEF RequestDump, Goto, verifyVars, signalVars
<1>3. CASE AwaitReport(t)
  BY <1>3 DEF AwaitReport, Goto, verifyVars, signalVars
<1>4. CASE NothingHeard(t)
  BY <1>4 DEF NothingHeard, Goto, verifyVars, signalVars
<1>5. CASE HearReport(t)
  BY <1>5 DEF HearReport, Goto, ObserveLinks, Burst, signalVars
<1>6. CASE WindowStopped(t)
  BY <1>6 DEF WindowStopped, CloseWindow, Goto, verifyVars, signalVars
<1>7. CASE WindowComplete(t)
  BY <1>7 DEF WindowComplete, CloseWindow, Goto, verifyVars, signalVars
<1>8. CASE WindowDeadline(t)
  BY <1>8 DEF WindowDeadline, CloseWindow, Goto, verifyVars, signalVars
<1>. QED
  BY <1>1, <1>2, <1>3, <1>4, <1>5, <1>6, <1>7, <1>8 DEF Window

LEMMA StartInVerifier ==
  ASSUME TypeOK, StartInv, VerifyStep, ~Apply("verify"), ~Window("verify")
  PROVE  StartInv'
<1>. USE DEF TypeOK, ThreadTypeOK, StartInv, VerifierAfterReady, ReapplyOwed, Thread
<1>1. CASE SettlingEnds
  BY <1>1 DEF SettlingEnds, Goto, VerifierEnds, signalVars
<1>2. CASE VerifyBlind
  BY <1>2 DEF VerifyBlind, Goto, VerifierEnds, signalVars
<1>3. CASE BlindDelayEnds
  BY <1>3 DEF BlindDelayEnds, Burst, Goto, VerifierEnds, signalVars
<1>4. CASE VerifyJudge
  BY <1>4 DEF VerifyJudge, Goto, VerifierEnds, ReapplyWithoutConfirmation, Burst,
           signalVars
<1>5. CASE VerifyReport
  BY <1>5 DEF VerifyReport, StartApply, Burst, Goto, VerifierEnds, signalVars
<1>6. CASE VerifyBurstOut
  BY <1>6 DEF VerifyBurstOut, Goto, VerifierEnds, signalVars
<1>. QED
  BY <1>1, <1>2, <1>3, <1>4, <1>5, <1>6 DEF VerifyStep

LEMMA StartInMain ==
  ASSUME TypeOK, StartInv, MainStep, ~Apply("main"), ~Window("main")
  PROVE  StartInv'
<1>. USE DEF TypeOK, ThreadTypeOK, StartInv, VerifierAfterReady, ReapplyOwed, Thread
<1>1. CASE BackendAwaited
  BY <1>1 DEF BackendAwaited, StartApply, Burst, Goto, verifyVars
<1>2. CASE FirstApplyOut
  BY <1>2 DEF FirstApplyOut
<1>3. CASE ReloadApplyOut
  BY <1>3 DEF ReloadApplyOut, Goto, verifyVars, signalVars
<1>4. CASE ChildWaited
  BY <1>4 DEF ChildWaited, Goto, verifyVars, signalVars
<1>5. CASE PollReload
  BY <1>5 DEF PollReload, Goto, verifyVars
<1>6. CASE PollStop
  BY <1>6 DEF PollStop, Goto, AtStopCheck, verifyVars
<1>7. CASE Escalate
  BY <1>7 DEF Escalate, Goto, AtStopCheck, verifyVars, signalVars
<1>8. CASE ReadConfig
  BY <1>8 DEF ReadConfig, Goto, verifyVars, signalVars
<1>9. CASE ReconcileRefused
  BY <1>9 DEF ReconcileRefused, Goto, verifyVars, signalVars
<1>10. CASE ReconcileJudge
  BY <1>10 DEF ReconcileJudge, StartApply, Burst, Goto, verifyVars, signalVars
<1>11. CASE Exits
  BY <1>11 DEF Exits, verifyVars, signalVars
<1>. QED
  BY <1>1, <1>2, <1>3, <1>4, <1>5, <1>6, <1>7, <1>8, <1>9, <1>10, <1>11 DEF MainStep

LEMMA StartInit == Init => StartInv
  BY DEF Init, DeskInit, StartInv, VerifierAfterReady, ReapplyOwed, Thread

LEMMA StartStep ==
  ASSUME TypeOK, StartInv, [Next]_vars
  PROVE  StartInv'
<1>. "main" \in Thread /\ "verify" \in Thread
  BY DEF Thread
<1>1. CASE MainStep
  BY <1>1, StartInApply, StartInWindow, StartInMain
<1>2. CASE VerifyStep
  BY <1>2, StartInApply, StartInWindow, StartInVerifier
<1>3. CASE StopAsked \/ HupAsked
  BY <1>3 DEF StopAsked, HupAsked, threadVars, verifyVars, deskVars, StartInv, VerifierAfterReady, ReapplyOwed, Thread
<1>4. CASE Environment /\ UNCHANGED <<threadVars, verifyVars, signalVars>>
  BY <1>4 DEF Environment, DeskStep, DumpNext, Deliver, BackendBinds, BackendDies,
              GuiOpens, GuiCloses, Hand, HandTurns, threadVars, verifyVars, signalVars,
              StartInv, VerifierAfterReady, ReapplyOwed, Thread
<1>5. CASE UNCHANGED vars
  BY <1>5 DEF vars, deskVars, threadVars, verifyVars, signalVars, StartInv, VerifierAfterReady, ReapplyOwed, Thread
<1>. QED
  BY <1>1, <1>2, <1>3, <1>4, <1>5 DEF Next

----------------------------------------------------------------------------
(* The receive port.                                                       *)

LEMMA PortInApply ==
  ASSUME TypeOK, StartInv, PortDiscipline, NEW t \in Thread, Apply(t)
  PROVE  PortDiscipline'
<1>. USE DEF TypeOK, ThreadTypeOK, PortDiscipline, Thread, Listening
<1>1. CASE SendNext(t)
  BY <1>1 DEF SendNext
<1>2. CASE ReachBarrier(t)
  BY <1>2 DEF ReachBarrier, MixBurst, Burst, Goto, Bind
<1>3. CASE HearEcho(t)
  BY <1>3 DEF HearEcho, MixBurst, Burst, Goto, Close
<1>4. CASE EchoTimeout(t)
  BY <1>4 DEF EchoTimeout, MixBurst, Burst, Goto, Close
<1>5. CASE Settled(t)
  BY <1>5 DEF Settled, MixBurst, Burst, Goto, deskVars
<1>. QED
  BY <1>1, <1>2, <1>3, <1>4, <1>5 DEF Apply

LEMMA PortInWindow ==
  ASSUME TypeOK, StartInv, PortDiscipline, NEW t \in Thread, Window(t)
  PROVE  PortDiscipline'
<1>. USE DEF TypeOK, ThreadTypeOK, PortDiscipline, Thread, Listening
<1>1. CASE Listen(t)
  BY <1>1 DEF Listen, Bind, Goto
<1>2. CASE RequestDump(t)
  BY <1>2 DEF RequestDump, Goto
<1>3. CASE AwaitReport(t)
  BY <1>3 DEF AwaitReport, Goto, deskVars
<1>4. CASE NothingHeard(t)
  BY <1>4 DEF NothingHeard, Goto, deskVars
<1>5. CASE HearReport(t)
  BY <1>5 DEF HearReport, Goto, ObserveLinks, Burst
<1>6. CASE WindowStopped(t)
  BY <1>6 DEF WindowStopped, CloseWindow, Goto, Close
<1>7. CASE WindowComplete(t)
  BY <1>7 DEF WindowComplete, CloseWindow, Goto, Close
<1>8. CASE WindowDeadline(t)
  BY <1>8 DEF WindowDeadline, CloseWindow, Goto, Close
<1>. QED
  BY <1>1, <1>2, <1>3, <1>4, <1>5, <1>6, <1>7, <1>8 DEF Window

LEMMA PortInVerifier ==
  ASSUME TypeOK, StartInv, PortDiscipline, VerifyStep, ~Apply("verify"), ~Window("verify")
  PROVE  PortDiscipline'
<1>. USE DEF TypeOK, ThreadTypeOK, PortDiscipline, Thread, Listening
<1>1. CASE SettlingEnds
  BY <1>1 DEF SettlingEnds, Goto, VerifierEnds, deskVars
<1>2. CASE VerifyBlind
  BY <1>2 DEF VerifyBlind, Goto, VerifierEnds
<1>3. CASE BlindDelayEnds
  BY <1>3 DEF BlindDelayEnds, Burst, Goto, VerifierEnds, deskVars
<1>4. CASE VerifyJudge
  BY <1>4 DEF VerifyJudge, Goto, VerifierEnds, ReapplyWithoutConfirmation, Burst,
           deskVars
<1>5. CASE VerifyReport
  BY <1>5 DEF VerifyReport, StartApply, Burst, Goto, VerifierEnds, deskVars
<1>6. CASE VerifyBurstOut
  BY <1>6 DEF VerifyBurstOut, Goto, VerifierEnds, deskVars
<1>. QED
  BY <1>1, <1>2, <1>3, <1>4, <1>5, <1>6 DEF VerifyStep

LEMMA PortInMain ==
  ASSUME TypeOK, StartInv, PortDiscipline, MainStep, ~Apply("main"), ~Window("main")
  PROVE  PortDiscipline'
<1>. USE DEF TypeOK, ThreadTypeOK, PortDiscipline, Thread, Listening
<1>1. CASE BackendAwaited
  BY <1>1 DEF BackendAwaited, StartApply, Burst, Goto, deskVars
<1>2. CASE FirstApplyOut
  BY <1>2 DEF FirstApplyOut, deskVars, StartInv, VerifierAfterReady
<1>3. CASE ReloadApplyOut
  BY <1>3 DEF ReloadApplyOut, Goto, deskVars
<1>4. CASE ChildWaited
  BY <1>4 DEF ChildWaited, Goto, deskVars
<1>5. CASE PollReload
  BY <1>5 DEF PollReload, Goto, deskVars
<1>6. CASE PollStop
  BY <1>6 DEF PollStop, Goto, AtStopCheck, deskVars
<1>7. CASE Escalate
  BY <1>7 DEF Escalate, Goto, AtStopCheck
<1>8. CASE ReadConfig
  BY <1>8 DEF ReadConfig, Goto, deskVars
<1>9. CASE ReconcileRefused
  BY <1>9 DEF ReconcileRefused, Goto, deskVars
<1>10. CASE ReconcileJudge
  BY <1>10 DEF ReconcileJudge, StartApply, Burst, Goto, deskVars
<1>11. CASE Exits
  BY <1>11 DEF Exits, Close
<1>. QED
  BY <1>1, <1>2, <1>3, <1>4, <1>5, <1>6, <1>7, <1>8, <1>9, <1>10, <1>11 DEF MainStep

LEMMA PortInit == Init => PortDiscipline
  BY DEF Init, DeskInit, PortDiscipline, Thread, Listening

LEMMA PortStep ==
  ASSUME TypeOK, StartInv, PortDiscipline, [Next]_vars
  PROVE  PortDiscipline'
<1>. "main" \in Thread /\ "verify" \in Thread
  BY DEF Thread
<1>1. CASE MainStep
  BY <1>1, PortInApply, PortInWindow, PortInMain
<1>2. CASE VerifyStep
  BY <1>2, PortInApply, PortInWindow, PortInVerifier
<1>3. CASE StopAsked \/ HupAsked
  BY <1>3 DEF StopAsked, HupAsked, threadVars, verifyVars, deskVars, PortDiscipline, Thread, Listening
<1>4. CASE Environment /\ UNCHANGED <<threadVars, verifyVars, signalVars>>
  BY <1>4 DEF Environment, DeskStep, DumpNext, Deliver, BackendBinds, BackendDies,
              GuiOpens, GuiCloses, Hand, HandTurns, threadVars, verifyVars, signalVars,
              PortDiscipline, Thread, Listening
<1>5. CASE UNCHANGED vars
  BY <1>5 DEF vars, deskVars, threadVars, verifyVars, signalVars, PortDiscipline, Thread, Listening
<1>. QED
  BY <1>1, <1>2, <1>3, <1>4, <1>5 DEF Next

\* In every run, with any registers, configurations, losses and signals, the
\* receive port is bound exactly while its thread is in a barrier or a window.
THEOREM PortDisciplined == Spec => []PortDiscipline
<1>. DEFINE Inv == TypeOK /\ StartInv /\ PortDiscipline
<1>1. Init => Inv
  BY TypeInit, StartInit, PortInit
<1>2. Inv /\ [Next]_vars => Inv'
  BY TypeStep, StartStep, PortStep
<1>. QED
  BY <1>1, <1>2, PTL DEF Spec

----------------------------------------------------------------------------
(* Reload.                                                                 *)

LEMMA HupInApply ==
  ASSUME TypeOK, UnreadHupIsQueued, NEW t \in Thread, Apply(t)
  PROVE  UnreadHupIsQueued'
<1>. USE DEF TypeOK, ThreadTypeOK, UnreadHupIsQueued, Thread
<1>1. CASE SendNext(t)
  BY <1>1 DEF SendNext, MovedBy, signalVars
<1>2. CASE ReachBarrier(t)
  BY <1>2 DEF ReachBarrier, MixBurst, Burst, Goto, Bind, signalVars, history
<1>3. CASE HearEcho(t)
  BY <1>3 DEF HearEcho, MixBurst, Burst, Goto, signalVars, history
<1>4. CASE EchoTimeout(t)
  BY <1>4 DEF EchoTimeout, MixBurst, Burst, Goto, signalVars, history
<1>5. CASE Settled(t)
  BY <1>5 DEF Settled, MixBurst, Burst, Goto, deskVars, signalVars, history
<1>. QED
  BY <1>1, <1>2, <1>3, <1>4, <1>5 DEF Apply

LEMMA HupInWindow ==
  ASSUME TypeOK, UnreadHupIsQueued, NEW t \in Thread, Window(t)
  PROVE  UnreadHupIsQueued'
<1>. USE DEF TypeOK, ThreadTypeOK, UnreadHupIsQueued, Thread
<1>1. CASE Listen(t)
  BY <1>1 DEF Listen, Bind, Goto, signalVars, history
<1>2. CASE RequestDump(t)
  BY <1>2 DEF RequestDump, Goto, signalVars
<1>3. CASE AwaitReport(t)
  BY <1>3 DEF AwaitReport, Goto, deskVars, signalVars, history
<1>4. CASE NothingHeard(t)
  BY <1>4 DEF NothingHeard, Goto, deskVars, signalVars, history
<1>5. CASE HearReport(t)
  BY <1>5 DEF HearReport, Goto, ObserveLinks, Burst, signalVars, history
<1>6. CASE WindowStopped(t)
  BY <1>6 DEF WindowStopped, CloseWindow, Goto, signalVars, history
<1>7. CASE WindowComplete(t)
  BY <1>7 DEF WindowComplete, CloseWindow, Goto, signalVars, history
<1>8. CASE WindowDeadline(t)
  BY <1>8 DEF WindowDeadline, CloseWindow, Goto, signalVars, history
<1>. QED
  BY <1>1, <1>2, <1>3, <1>4, <1>5, <1>6, <1>7, <1>8 DEF Window

LEMMA HupInVerifier ==
  ASSUME TypeOK, UnreadHupIsQueued, VerifyStep, ~Apply("verify"), ~Window("verify")
  PROVE  UnreadHupIsQueued'
<1>. USE DEF TypeOK, ThreadTypeOK, UnreadHupIsQueued, Thread
<1>1. CASE SettlingEnds
  BY <1>1 DEF SettlingEnds, Goto, VerifierEnds, deskVars, signalVars, history
<1>2. CASE VerifyBlind
  BY <1>2 DEF VerifyBlind, Goto, VerifierEnds, signalVars, history
<1>3. CASE BlindDelayEnds
  BY <1>3 DEF BlindDelayEnds, Burst, Goto, VerifierEnds, deskVars, signalVars, history
<1>4. CASE VerifyJudge
  BY <1>4 DEF VerifyJudge, Goto, VerifierEnds, ReapplyWithoutConfirmation, Burst,
           deskVars, signalVars, history
<1>5. CASE VerifyReport
  BY <1>5 DEF VerifyReport, StartApply, Burst, Goto, VerifierEnds, deskVars,
           signalVars, history
<1>6. CASE VerifyBurstOut
  BY <1>6 DEF VerifyBurstOut, Goto, VerifierEnds, deskVars, signalVars, history
<1>. QED
  BY <1>1, <1>2, <1>3, <1>4, <1>5, <1>6 DEF VerifyStep

LEMMA HupInMain ==
  ASSUME TypeOK, UnreadHupIsQueued, MainStep, ~Apply("main"), ~Window("main")
  PROVE  UnreadHupIsQueued'
<1>. USE DEF TypeOK, ThreadTypeOK, UnreadHupIsQueued, Thread
<1>1. CASE BackendAwaited
  BY <1>1 DEF BackendAwaited, StartApply, Burst, Goto, deskVars, history
<1>2. CASE FirstApplyOut
  BY <1>2 DEF FirstApplyOut, deskVars, history
<1>3. CASE ReloadApplyOut
  BY <1>3 DEF ReloadApplyOut, Goto, deskVars, signalVars
<1>4. CASE ChildWaited
  BY <1>4 DEF ChildWaited, Goto, deskVars, signalVars, history
<1>5. CASE PollReload
  BY <1>5 DEF PollReload, Goto, deskVars, history
<1>6. CASE PollStop
  BY <1>6 DEF PollStop, Goto, AtStopCheck, deskVars, history
<1>7. CASE Escalate
  BY <1>7 DEF Escalate, Goto, AtStopCheck, signalVars, history
<1>8. CASE ReadConfig
  BY <1>8 DEF ReadConfig, Goto, deskVars, signalVars
<1>9. CASE ReconcileRefused
  BY <1>9 DEF ReconcileRefused, Goto, deskVars, signalVars, history
<1>10. CASE ReconcileJudge
  BY <1>10 DEF ReconcileJudge, StartApply, Burst, Goto, deskVars, signalVars
<1>11. CASE Exits
  BY <1>11 DEF Exits, signalVars, history
<1>. QED
  BY <1>1, <1>2, <1>3, <1>4, <1>5, <1>6, <1>7, <1>8, <1>9, <1>10, <1>11 DEF MainStep

LEMMA HupInit == Init => UnreadHupIsQueued
  BY DEF Init, DeskInit, UnreadHupIsQueued, history

LEMMA HupStep ==
  ASSUME TypeOK, UnreadHupIsQueued, [Next]_vars
  PROVE  UnreadHupIsQueued'
<1>. "main" \in Thread /\ "verify" \in Thread
  BY DEF Thread
<1>1. CASE MainStep
  BY <1>1, HupInApply, HupInWindow, HupInMain
<1>2. CASE VerifyStep
  BY <1>2, HupInApply, HupInWindow, HupInVerifier
<1>3. CASE StopAsked \/ HupAsked
  BY <1>3 DEF StopAsked, HupAsked, threadVars, verifyVars, deskVars, UnreadHupIsQueued, history
<1>4. CASE Environment /\ UNCHANGED <<threadVars, verifyVars, signalVars>>
  BY <1>4 DEF Environment, DeskStep, DumpNext, Deliver, BackendBinds, BackendDies,
              GuiOpens, GuiCloses, Hand, HandTurns, threadVars, verifyVars, signalVars,
              UnreadHupIsQueued, history
<1>5. CASE UNCHANGED vars
  BY <1>5 DEF vars, deskVars, threadVars, verifyVars, signalVars, UnreadHupIsQueued, history
<1>. QED
  BY <1>1, <1>2, <1>3, <1>4, <1>5 DEF Next

\* In every run a SIGHUP whose configuration nobody has read yet is queued.
THEOREM HupQueued == Spec => []UnreadHupIsQueued
<1>. DEFINE Inv == TypeOK /\ UnreadHupIsQueued
<1>1. Init => Inv
  BY TypeInit, HupInit
<1>2. Inv /\ [Next]_vars => Inv'
  BY TypeStep, HupStep
<1>. QED
  BY <1>1, <1>2, PTL DEF Spec

----------------------------------------------------------------------------
(* The stop contract: the verifier's thread implements VerifierContract.   *)

ContractStep == [Contract!Next]_(Contract!vars)

LEMMA ContractInApply ==
  ASSUME TypeOK, StartInv, NEW t \in Thread, Apply(t)
  PROVE  ContractStep
<1>. USE DEF TypeOK, ThreadTypeOK, VerifierTypeOK, StartInv, ReapplyOwed,
             VerifierAfterReady, Contract!Next, Contract!vars, Contract!Stop,
             Contract!Write, Contract!Written, Contract!WriteBlindly, Contract!End,
             AbstractPhase, AbstractLeft, ShouldStop, ContractStep, Writing, Thread
<1>1. CASE SendNext(t)
  BY <1>1 DEF SendNext, PutRegister, MayLose, verifyVars, signalVars
<1>2. CASE ReachBarrier(t)
  BY <1>2 DEF ReachBarrier, MixBurst, Burst, Goto, Bind, verifyVars, signalVars
<1>3. CASE HearEcho(t)
  BY <1>3 DEF HearEcho, MixBurst, Burst, Goto, verifyVars, signalVars
<1>4. CASE EchoTimeout(t)
  BY <1>4 DEF EchoTimeout, MixBurst, Burst, Goto, verifyVars, signalVars
<1>5. CASE Settled(t)
  BY <1>5 DEF Settled, MixBurst, Burst, Goto, deskVars, verifyVars, signalVars
<1>. QED
  BY <1>1, <1>2, <1>3, <1>4, <1>5 DEF Apply

LEMMA ContractInWindow ==
  ASSUME TypeOK, StartInv, NEW t \in Thread, Window(t)
  PROVE  ContractStep
<1>. USE DEF TypeOK, ThreadTypeOK, VerifierTypeOK, StartInv, ReapplyOwed,
             VerifierAfterReady, Contract!Next, Contract!vars, Contract!Stop,
             Contract!Write, Contract!Written, Contract!WriteBlindly, Contract!End,
             AbstractPhase, AbstractLeft, ShouldStop, ContractStep, Writing, Thread
<1>1. CASE Listen(t)
  BY <1>1 DEF Listen, Bind, Goto, verifyVars, signalVars
<1>2. CASE RequestDump(t)
  BY <1>2 DEF RequestDump, PutRefresh, MayLose, Goto, verifyVars, signalVars
<1>3. CASE AwaitReport(t)
  BY <1>3 DEF AwaitReport, Goto, deskVars, verifyVars, signalVars
<1>4. CASE NothingHeard(t)
  BY <1>4 DEF NothingHeard, Goto, deskVars, verifyVars, signalVars
<1>5. CASE HearReport(t)
  BY <1>5 DEF HearReport, Goto, ObserveLinks, Burst, signalVars
<1>6. CASE WindowStopped(t)
  BY <1>6 DEF WindowStopped, CloseWindow, Goto, verifyVars, signalVars
<1>7. CASE WindowComplete(t)
  BY <1>7 DEF WindowComplete, CloseWindow, Goto, verifyVars, signalVars
<1>8. CASE WindowDeadline(t)
  BY <1>8 DEF WindowDeadline, CloseWindow, Goto, verifyVars, signalVars
<1>. QED
  BY <1>1, <1>2, <1>3, <1>4, <1>5, <1>6, <1>7, <1>8 DEF Window

LEMMA ContractInVerifier ==
  ASSUME TypeOK, StartInv, VerifyStep, ~Apply("verify"), ~Window("verify")
  PROVE  ContractStep
<1>. USE DEF TypeOK, ThreadTypeOK, VerifierTypeOK, StartInv, ReapplyOwed,
             VerifierAfterReady, Contract!Next, Contract!vars, Contract!Stop,
             Contract!Write, Contract!Written, Contract!WriteBlindly, Contract!End,
             AbstractPhase, AbstractLeft, ShouldStop, ContractStep, Writing, Thread
<1>1. CASE SettlingEnds
  BY <1>1 DEF SettlingEnds, Goto, VerifierEnds, deskVars, signalVars
<1>2. CASE VerifyBlind
  BY <1>2 DEF VerifyBlind, Goto, VerifierEnds, signalVars
<1>3. CASE BlindDelayEnds
  <2>1. UNCHANGED <<stop, child, attempt, reapplied, cfg>>
    BY <1>3 DEF BlindDelayEnds, deskVars, signalVars
  <2>2. CASE ShouldStop("verify") /\ VerifierEnds(verdict)
    BY <1>3, <2>1, <2>2 DEF BlindDelayEnds, VerifierEnds, Goto
  <2>3. CASE ~ShouldStop("verify") /\ Burst("verify", "blindmix", RemixOf[cfg["verify"]])
    BY <1>3, <2>1, <2>3 DEF BlindDelayEnds, Burst, Goto
  <2>. QED
    BY <1>3, <2>2, <2>3 DEF BlindDelayEnds
<1>4. CASE VerifyJudge
  BY <1>4 DEF VerifyJudge, Goto, VerifierEnds, ReapplyWithoutConfirmation, Burst,
           deskVars, signalVars
<1>5. CASE VerifyReport
  BY <1>5 DEF VerifyReport, StartApply, Burst, Goto, VerifierEnds, deskVars,
           signalVars
<1>6. CASE VerifyBurstOut
  BY <1>6 DEF VerifyBurstOut, Goto, VerifierEnds, deskVars, signalVars
<1>. QED
  BY <1>1, <1>2, <1>3, <1>4, <1>5, <1>6 DEF VerifyStep

LEMMA ContractInMain ==
  ASSUME TypeOK, StartInv, MainStep, ~Apply("main"), ~Window("main")
  PROVE  ContractStep
<1>. USE DEF TypeOK, ThreadTypeOK, VerifierTypeOK, StartInv, ReapplyOwed,
             VerifierAfterReady, Contract!Next, Contract!vars, Contract!Stop,
             Contract!Write, Contract!Written, Contract!WriteBlindly, Contract!End,
             AbstractPhase, AbstractLeft, ShouldStop, ContractStep, Writing, Thread
<1>1. CASE BackendAwaited
  BY <1>1 DEF BackendAwaited, StartApply, Burst, Goto, deskVars, verifyVars
<1>2. CASE FirstApplyOut
  BY <1>2 DEF FirstApplyOut, deskVars
<1>3. CASE ReloadApplyOut
  BY <1>3 DEF ReloadApplyOut, Goto, deskVars, verifyVars, signalVars
<1>4. CASE ChildWaited
  BY <1>4 DEF ChildWaited, Goto, deskVars, verifyVars, signalVars
<1>5. CASE PollReload
  BY <1>5 DEF PollReload, Goto, deskVars, verifyVars
<1>6. CASE PollStop
  BY <1>6 DEF PollStop, Goto, AtStopCheck, deskVars, verifyVars
<1>7. CASE Escalate
  BY <1>7 DEF Escalate, Goto, AtStopCheck, verifyVars, signalVars
<1>8. CASE ReadConfig
  BY <1>8 DEF ReadConfig, Goto, deskVars, verifyVars, signalVars
<1>9. CASE ReconcileRefused
  BY <1>9 DEF ReconcileRefused, Goto, deskVars, verifyVars, signalVars
<1>10. CASE ReconcileJudge
  BY <1>10 DEF ReconcileJudge, StartApply, Burst, Goto, deskVars, verifyVars,
           signalVars
<1>11. CASE Exits
  BY <1>11 DEF Exits, verifyVars, signalVars
<1>. QED
  BY <1>1, <1>2, <1>3, <1>4, <1>5, <1>6, <1>7, <1>8, <1>9, <1>10, <1>11 DEF MainStep

LEMMA ContractNextStep ==
  ASSUME TypeOK, StartInv, [Next]_vars
  PROVE  ContractStep
<1>. "main" \in Thread /\ "verify" \in Thread
  BY DEF Thread
<1>1. CASE MainStep
  BY <1>1, ContractInApply, ContractInWindow, ContractInMain
<1>2. CASE VerifyStep
  BY <1>2, ContractInApply, ContractInWindow, ContractInVerifier
<1>3. CASE StopAsked \/ HupAsked
  BY <1>3 DEF StopAsked, HupAsked, threadVars, verifyVars, deskVars, Contract!Next, Contract!vars, Contract!Stop, AbstractPhase, AbstractLeft, ShouldStop, ContractStep, Writing
<1>4. CASE Environment /\ UNCHANGED <<threadVars, verifyVars, signalVars>>
  BY <1>4 DEF Environment, DeskStep, DumpNext, Deliver, BackendBinds, BackendDies,
              GuiOpens, GuiCloses, Hand, HandTurns, threadVars, verifyVars, signalVars,
              Contract!Next, Contract!vars, Contract!Stop, AbstractPhase, AbstractLeft, ShouldStop, ContractStep, Writing
<1>5. CASE UNCHANGED vars
  BY <1>5 DEF vars, deskVars, threadVars, verifyVars, signalVars, Contract!Next, Contract!vars, Contract!Stop, AbstractPhase, AbstractLeft, ShouldStop, ContractStep, Writing
<1>. QED
  BY <1>1, <1>2, <1>3, <1>4, <1>5 DEF Next

\* The verifier keeps its contract in every run: whatever the configuration
\* and the interleaving, it re-applies the mix and the routing at most once,
\* begins no write after a stop or over a dead backend, and ends with the
\* blind write when there is one.
THEOREM ContractKept == Spec => KeepsItsContract
<1>. DEFINE Inv == TypeOK /\ StartInv
<1>1. Init => Contract!Init
  BY DEF Init, DeskInit, Contract!Init, AbstractPhase, AbstractLeft, ShouldStop,
         Writing, Thread
<1>2. Init => Inv
  BY TypeInit, StartInit
<1>3. Inv /\ [Next]_vars => Inv'
  BY TypeStep, StartStep
<1>4. Inv /\ [Next]_vars => [Contract!Next]_(Contract!vars)
  BY ContractNextStep DEF ContractStep
<1>. QED
  BY <1>1, <1>2, <1>3, <1>4, PTL DEF Spec, KeepsItsContract, Contract!Spec

----------------------------------------------------------------------------
(* What a step does to the device, oscmix and the port, whoever takes it.  *)

KeepsReports == UNCHANGED <<dev, view, wire, dump, child>>

ControlStep == /\ KeepsReports
               /\ \/ inbox' = inbox \/ inbox' = <<>>
                  \/ inbox # <<>> /\ inbox' = Tail(inbox)
RefreshStep == PutRefresh /\ UNCHANGED inbox
Sends(t)    == /\ pc[t] \in Writing /\ todo[t] # <<>>
               /\ PutRegister(Head(todo[t])) /\ UNCHANGED inbox
LosesBackend == /\ child' = "dead" /\ wire' = <<>> /\ dump' = <<>>
                /\ UNCHANGED <<dev, view, inbox>>

DeskChange ==
  \/ ControlStep \/ RefreshStep
  \/ \E t \in Thread : Sends(t)
  \/ DumpNext \/ Deliver \/ BackendBinds \/ LosesBackend
  \/ \E r \in HandRegs : HandTurns(r)

LEMMA DeskInApply ==
  ASSUME NEW t \in Thread, Apply(t)
  PROVE  DeskChange
<1>. USE DEF DeskChange, ControlStep, KeepsReports
<1>1. CASE SendNext(t)
  BY <1>1 DEF SendNext, Sends
<1>2. CASE ReachBarrier(t)
  BY <1>2 DEF ReachBarrier, Bind
<1>3. CASE HearEcho(t)
  BY <1>3 DEF HearEcho, Close
<1>4. CASE EchoTimeout(t)
  BY <1>4 DEF EchoTimeout, Close
<1>5. CASE Settled(t)
  BY <1>5 DEF Settled, deskVars
<1>. QED
  BY <1>1, <1>2, <1>3, <1>4, <1>5 DEF Apply

LEMMA DeskInWindow ==
  ASSUME NEW t \in Thread, Window(t)
  PROVE  DeskChange
<1>. USE DEF DeskChange, ControlStep, KeepsReports
<1>1. CASE Listen(t)
  BY <1>1 DEF Listen, Bind
<1>2. CASE RequestDump(t)
  BY <1>2 DEF RequestDump, RefreshStep
<1>3. CASE AwaitReport(t) \/ NothingHeard(t)
  BY <1>3 DEF AwaitReport, NothingHeard, deskVars
<1>4. CASE HearReport(t)
  BY <1>4 DEF HearReport
<1>5. CASE WindowStopped(t) \/ WindowComplete(t) \/ WindowDeadline(t)
  BY <1>5 DEF WindowStopped, WindowComplete, WindowDeadline, CloseWindow, Close
<1>. QED
  BY <1>1, <1>2, <1>3, <1>4, <1>5 DEF Window

LEMMA DeskInVerifier ==
  ASSUME VerifyStep
  PROVE  DeskChange
<1>. "verify" \in Thread
  BY DEF Thread
<1>1. CASE Apply("verify") \/ Window("verify")
  BY <1>1, DeskInApply, DeskInWindow
<1>. USE DEF DeskChange, ControlStep, KeepsReports
<1>2. CASE VerifyBlind
  BY <1>2 DEF VerifyBlind, RefreshStep
<1>3. CASE SettlingEnds \/ BlindDelayEnds \/ VerifyJudge \/ VerifyReport \/ VerifyBurstOut
  BY <1>3 DEF SettlingEnds, BlindDelayEnds, VerifyJudge, VerifyReport, VerifyBurstOut, deskVars
<1>. QED
  BY <1>1, <1>2, <1>3 DEF VerifyStep

LEMMA DeskInMain ==
  ASSUME MainStep
  PROVE  DeskChange
<1>. "main" \in Thread
  BY DEF Thread
<1>1. CASE Apply("main") \/ Window("main")
  BY <1>1, DeskInApply, DeskInWindow
<1>. USE DEF DeskChange, ControlStep, KeepsReports
<1>2. CASE BackendAwaited \/ FirstApplyOut \/ ReloadApplyOut \/ ChildWaited \/ PollReload
           \/ PollStop \/ ReadConfig \/ ReconcileRefused \/ ReconcileJudge
  BY <1>2 DEF BackendAwaited, FirstApplyOut, ReloadApplyOut, ChildWaited, PollReload,
              PollStop, ReadConfig, ReconcileRefused, ReconcileJudge, deskVars
<1>3. CASE Escalate
  BY <1>3 DEF Escalate, LosesBackend
<1>4. CASE Exits
  BY <1>4 DEF Exits, Close
<1>. QED
  BY <1>1, <1>2, <1>3, <1>4 DEF MainStep

LEMMA DeskInEnvironment ==
  ASSUME Environment
  PROVE  DeskChange
<1>. USE DEF DeskChange, ControlStep, KeepsReports
<1>1. CASE Hand
  BY <1>1 DEF Hand
<1>2. CASE DeskStep \/ BackendDies \/ GuiOpens \/ GuiCloses
  BY <1>2 DEF DeskStep, BackendDies, GuiOpens, GuiCloses, LosesBackend
<1>. QED
  BY <1>1, <1>2 DEF Environment

LEMMA DeskInNext ==
  ASSUME [Next]_vars
  PROVE  DeskChange
<1>1. CASE StopAsked \/ HupAsked \/ UNCHANGED vars
  BY <1>1 DEF StopAsked, HupAsked, vars, deskVars, DeskChange, ControlStep, KeepsReports
<1>. QED
  BY <1>1, DeskInMain, DeskInVerifier, DeskInEnvironment DEF Next

----------------------------------------------------------------------------
(* One link message m, when whatever is sent about its register is m.      *)

\* It is at the device, oscmix knows it, and no other report is under way.
Sure(m) ==
  /\ dev[m.reg] = m.args /\ view[m.reg] = m.args
  /\ \A i \in 1 .. Len(wire) : wire[i].reg = m.reg => wire[i] = m

\* Once the device has reported it, it reports nothing else.
ReportIsFinal(m) ==
  \A i \in 1 .. Len(wire) : wire[i] = m =>
    /\ dev[m.reg] = m.args
    /\ \A j \in i .. Len(wire) : wire[j].reg = m.reg => wire[j] = m

HeardIsSure(m) == m \in ToSet(inbox) => Sure(m)

Steady(m) == ReportIsFinal(m) /\ HeardIsSure(m)

LinkMessage == {m \in Report : m.reg \in LinkRegs}

LEMMA LinkIsNoCell ==
  ASSUME NEW m \in LinkMessage, NEW out, NEW kind, NEW src
  PROVE  m.reg # Cell(out, kind, src) /\ m.reg[1] = "output"
  BY DEF LinkMessage, LinkRegs, Cell

\* A message about another register does not touch a link.
LEMMA WrittenElsewhere ==
  ASSUME DeskTypeOK, NEW m \in LinkMessage, NEW w \in Sendable, w.reg # m.reg
  PROVE  Written(w)[m.reg] = dev[m.reg]
<1>. m.reg \in Reg /\ dev \in [Reg -> Values]
  BY DEF LinkMessage, Report, DeskTypeOK
<1>1. CASE w.reg[1] # "mix"
  BY <1>1 DEF Written
<1>2. CASE w.reg[1] = "mix" /\ ~Linked(w.reg[2])
  BY <1>2 DEF Written
<1>3. CASE w.reg[1] = "mix" /\ Linked(w.reg[2])
  <2>. DEFINE one == Cell(OddOf(w.reg[2]), w.reg[3], w.reg[4])
              two == Cell(OddOf(w.reg[2]) + 1, w.reg[3], w.reg[4])
  <2>1. m.reg # one /\ m.reg # two
    BY LinkIsNoCell
  <2>2. PICK a, b : Written(w) = [dev EXCEPT ![one] = a, ![two] = b]
    BY <1>3 DEF Written
  <2>. HIDE DEF one, two
  <2>. QED
    BY <2>1, <2>2
<1>. QED
  BY <1>1, <1>2, <1>3

LEMMA WrittenHere ==
  ASSUME DeskTypeOK, NEW m \in LinkMessage
  PROVE  Written(m)[m.reg] = m.args
<1>1. m.reg[1] # "mix" /\ m.reg \in Reg
  BY LinkIsNoCell DEF LinkMessage, LinkRegs
<1>. QED
  BY <1>1 DEF Written, DeskTypeOK

LEMMA SteadyWhenSent ==
  ASSUME DeskTypeOK, NEW m \in LinkMessage, Steady(m),
         NEW w \in Sendable, w.reg = m.reg => w = m,
         PutRegister(w), UNCHANGED inbox
  PROVE  Steady(m)' /\ (Sure(m) => Sure(m)')
<1>1. CASE UNCHANGED <<dev, wire>>
  BY <1>1 DEF PutRegister, Steady, ReportIsFinal, HeardIsSure, Sure
<1>2. CASE dev' = Written(w) /\ wire' = Echoed(w)
  <2>0. view' = view /\ inbox' = inbox /\ wire \in Seq(Report)
    BY DEF PutRegister, DeskTypeOK
  <2>1. CASE w.reg # m.reg
    <3>1. dev'[m.reg] = dev[m.reg]
      BY <1>2, <2>1, WrittenElsewhere
    <3>2. wire' = wire \/ wire' = Append(wire, w)
      BY <1>2 DEF Echoed
    <3>. QED
      BY <2>0, <2>1, <3>1, <3>2 DEF Steady, ReportIsFinal, HeardIsSure, Sure
  <2>2. CASE w = m
    <3>1. dev'[m.reg] = m.args
      BY <1>2, <2>2, WrittenHere
    <3>2. CASE dev[m.reg] = m.args
      <4>1. wire' = wire
        BY <1>2, <2>2, <3>2 DEF Echoed
      <4>. QED
        BY <2>0, <3>1, <3>2, <4>1 DEF Steady, ReportIsFinal, HeardIsSure, Sure
    <3>3. CASE dev[m.reg] # m.args
      <4>1. wire' = Append(wire, m)
        BY <1>2, <2>2, <3>3 DEF Echoed, LinkMessage
      <4>. QED
        BY <2>0, <3>1, <3>3, <4>1 DEF Steady, ReportIsFinal, HeardIsSure, Sure
    <3>. QED
      BY <3>2, <3>3
  <2>. QED
    BY <2>1, <2>2
<1>. QED
  BY <1>1, <1>2 DEF PutRegister

LEMMA SteadyInDump ==
  ASSUME DeskTypeOK, NEW m \in LinkMessage, Steady(m), DumpNext
  PROVE  Steady(m)' /\ (Sure(m) => Sure(m)')
<1>. DEFINE w == Message(Head(dump), dev[Head(dump)])
<1>1. /\ wire = <<>> /\ wire' = <<w>>
      /\ UNCHANGED <<dev, view, inbox>>
  BY DEF DumpNext
<1>2. w.reg = m.reg => w.args = dev[m.reg]
  BY DEF Message
<1>3. w = [reg |-> w.reg, args |-> w.args] /\ m = [reg |-> m.reg, args |-> m.args]
  BY DEF Message, LinkMessage, Report
<1>. HIDE DEF w
<1>4. Sure(m) => Sure(m)'
  BY <1>1, <1>2, <1>3 DEF Sure
<1>5. ReportIsFinal(m)'
  BY <1>1, <1>2, <1>3 DEF ReportIsFinal
<1>. QED
  BY <1>1, <1>4, <1>5 DEF Steady, HeardIsSure

LEMMA SteadyInDelivery ==
  ASSUME DeskTypeOK, NEW m \in LinkMessage, Steady(m), Deliver
  PROVE  Steady(m)' /\ (Sure(m) => Sure(m)')
<1>. DEFINE w == wire[1]
<1>1. /\ wire \in Seq(Report) /\ Len(wire) > 0 /\ w \in Report
      /\ inbox \in Seq(Report) /\ view \in [LinkRegs -> Values]
  BY DEF Deliver, DeskTypeOK
<1>2. /\ dev' = dev /\ wire' = Tail(wire)
      /\ view' = IF w.reg \in LinkRegs THEN [view EXCEPT ![w.reg] = w.args] ELSE view
      /\ inbox' = inbox \/ inbox' = Append(inbox, w)
  <2>1. w = Head(wire)
    BY <1>1
  <2>. HIDE DEF w
  <2>. QED
    BY <2>1 DEF Deliver
<1>3. /\ Len(wire') = Len(wire) - 1
      /\ \A i \in 1 .. Len(wire') : i + 1 \in 1 .. Len(wire) /\ wire'[i] = wire[i + 1]
  BY <1>1, <1>2
<1>. HIDE DEF w
<1>4. view'[m.reg] = IF w.reg = m.reg THEN w.args ELSE view[m.reg]
  BY <1>1, <1>2 DEF LinkMessage
<1>5. Sure(m) => Sure(m)'
  <2>. SUFFICES ASSUME Sure(m) PROVE Sure(m)'
    OBVIOUS
  <2>1. w.reg = m.reg => w = m
    BY <1>1, 1 \in 1 .. Len(wire) DEF Sure, w
  <2>. QED
    BY <1>2, <1>3, <1>4, <2>1 DEF Sure
<1>6. ReportIsFinal(m)'
  BY <1>1, <1>2, <1>3 DEF Steady, ReportIsFinal
<1>7. HeardIsSure(m)'
  <2>1. CASE w = m
    <3>1. \A i \in 1 .. Len(wire) : wire[i].reg = m.reg => wire[i] = m
      BY <1>1, <2>1, 1 \in 1 .. Len(wire) DEF Steady, ReportIsFinal, w
    <3>2. dev[m.reg] = m.args
      BY <1>1, <2>1, 1 \in 1 .. Len(wire) DEF Steady, ReportIsFinal, w
    <3>. QED
      BY <1>2, <1>3, <1>4, <2>1, <3>1, <3>2 DEF HeardIsSure, Sure
  <2>2. CASE w # m
    <3>1. m \in ToSet(inbox)' => m \in ToSet(inbox)
      <4>1. CASE inbox' = Append(inbox, w)
        <5>1. SUFFICES ASSUME NEW i \in 1 .. Len(inbox) + 1, inbox'[i] = m
                       PROVE  m \in ToSet(inbox)
          BY <1>1, <4>1 DEF ToSet
        <5>2. i # Len(inbox) + 1 /\ inbox[i] = m
          BY <1>1, <2>2, <4>1, <5>1
        <5>. QED
          BY <1>1, <5>2 DEF ToSet
      <4>. QED
        BY <1>2, <4>1
    <3>. QED
      BY <1>5, <3>1 DEF Steady, HeardIsSure
  <2>. QED
    BY <2>1, <2>2
<1>. QED
  BY <1>5, <1>6, <1>7 DEF Steady

\* A link that was heard as it is wanted stays so, whatever the device, the
\* backend and the GUI do, while the messages sent about it say the same.
LEMMA SteadyInDesk ==
  ASSUME DeskTypeOK, NEW m \in LinkMessage, Steady(m), HandRegs \intersect LinkRegs = {},
         \A t \in Thread : pc[t] \in Writing /\ todo[t] # <<>> =>
           Head(todo[t]) \in Sendable /\ (Head(todo[t]).reg = m.reg => Head(todo[t]) = m),
         DeskChange
  PROVE  Steady(m)' /\ (Sure(m) => Sure(m)')
<1>1. CASE ControlStep
  <2>1. Sure(m)' <=> Sure(m)
    BY <1>1 DEF ControlStep, KeepsReports, Sure
  <2>2. ReportIsFinal(m)'
    BY <1>1 DEF ControlStep, KeepsReports, Steady, ReportIsFinal
  <2>3. m \in ToSet(inbox)' => m \in ToSet(inbox)
    <3>1. inbox \in Seq(Report)
      BY DEF DeskTypeOK
    <3>. QED
      BY <1>1, <3>1 DEF ControlStep, ToSet
  <2>. QED
    BY <2>1, <2>2, <2>3 DEF Steady, HeardIsSure
<1>2. CASE RefreshStep \/ BackendBinds
  BY <1>2 DEF RefreshStep, PutRefresh, BackendBinds, Steady, ReportIsFinal, HeardIsSure, Sure
<1>3. CASE LosesBackend
  BY <1>3 DEF LosesBackend, Steady, ReportIsFinal, HeardIsSure, Sure
<1>4. ASSUME NEW t \in Thread, Sends(t)
      PROVE  Steady(m)' /\ (Sure(m) => Sure(m)')
  BY <1>4, SteadyWhenSent DEF Sends
<1>5. CASE DumpNext
  BY <1>5, SteadyInDump
<1>6. CASE Deliver
  BY <1>6, SteadyInDelivery
<1>7. ASSUME NEW r \in HandRegs, HandTurns(r)
      PROVE  Steady(m)' /\ (Sure(m) => Sure(m)')
  <2>1. r \notin LinkRegs /\ r # m.reg
    BY DEF LinkMessage
  <2>2. PICK v \in FaderValues :
          dev' = [dev EXCEPT ![r] = v] /\ wire' = Echoed(Message(r, v))
    BY <1>7 DEF HandTurns
  <2>3. dev'[m.reg] = dev[m.reg] /\ UNCHANGED <<view, wire, inbox>>
    BY <1>7, <2>1, <2>2 DEF HandTurns, Echoed, Message, DeskTypeOK, LinkMessage, Report
  <2>. QED
    BY <2>3 DEF Steady, ReportIsFinal, HeardIsSure, Sure
<1>. QED
  BY <1>1, <1>2, <1>3, <1>4, <1>5, <1>6, <1>7 DEF DeskChange

----------------------------------------------------------------------------
(* What a step does to the bursts and to what the threads wait for.        *)

BurstsOf(c) == {RemixOf[c]} \union UNION {{Without(LinksOf[c], s), Without(MixesOf[c], s)} : s \in SUBSET Reg}

TodoChange(t) ==
  \/ todo'[t] = todo[t]
  \/ todo[t] # <<>> /\ todo'[t] = Tail(todo[t])
  \/ todo'[t] \in BurstsOf(cfg[t])

HeardOne(left, before) ==
  \/ left = before
  \/ inbox # <<>> /\ left = before \ {Head(inbox)}

BarrierChange(t) ==
  /\ pc[t] = "echo" /\ pc'[t] \in {"echo", "mix"} =>
       HeardOne(pending'[t], pending[t])
  /\ pc'[t] = "echo" =>
       /\ cfg'[t] = cfg[t]
       /\ pc[t] # "echo" => pending'[t] = AwaitedOf[cfg[t]]

VerifierChange ==
  /\ pc["verify"] # "none" =>
       pc'["verify"] # "none" /\ HeardOne(pendingLinks', pendingLinks)
  /\ pc["verify"] = "none" /\ pc'["verify"] # "none" =>
       pendingLinks' = AwaitedOf[cfg["verify"]]
  /\ pc["verify"] = "recv" /\ pc'["verify"] = "remix" => pendingLinks' = {}

ThreadChange ==
  /\ \A t \in Thread : TodoChange(t) /\ BarrierChange(t)
  /\ VerifierChange
  /\ \/ cfg' = cfg
     \/ file # Broken /\ cfg' = [cfg EXCEPT !["main"] = file]
  /\ cfg'["verify"] = cfg["verify"]

LEMMA BurstsKnown ==
  ASSUME TypeOK, NEW t \in Thread
  PROVE  /\ RemixOf[cfg[t]] \in BurstsOf(cfg[t])
         /\ \A s \in SUBSET Reg : /\ Without(LinksOf[cfg[t]], s) \in BurstsOf(cfg[t])
                                 /\ Without(MixesOf[cfg[t]], s) \in BurstsOf(cfg[t])
         /\ Without(MixesOf[cfg[t]], skip[t]) \in BurstsOf(cfg[t])
         /\ Without(LinksOf[cfg[t]], Kept(t)) \in BurstsOf(cfg[t])
<1>1. skip[t] \in SUBSET Reg /\ Kept(t) \in SUBSET Reg
  BY BurstsTyped DEF TypeOK, ThreadTypeOK
<1>2. \A s \in SUBSET Reg : /\ Without(LinksOf[cfg[t]], s) \in BurstsOf(cfg[t])
                           /\ Without(MixesOf[cfg[t]], s) \in BurstsOf(cfg[t])
  <2>. TAKE s \in SUBSET Reg
  <2>1. {Without(LinksOf[cfg[t]], s), Without(MixesOf[cfg[t]], s)} \subseteq BurstsOf(cfg[t])
    BY DEF BurstsOf
  <2>. QED
    BY <2>1
<1>. QED
  BY <1>1, <1>2 DEF BurstsOf

LEMMA ThreadsInApply ==
  ASSUME TypeOK, NEW t \in Thread, Apply(t)
  PROVE  ThreadChange
<1>. USE DEF TypeOK, ThreadTypeOK, ThreadChange, TodoChange, BarrierChange, VerifierChange,
             HeardOne, Thread
<1>1. CASE SendNext(t)
  BY <1>1 DEF SendNext, verifyVars
<1>2. CASE ReachBarrier(t)
  BY <1>2, BurstsKnown DEF ReachBarrier, MixBurst, Burst, Goto, Bind, verifyVars
<1>3. CASE HearEcho(t)
  BY <1>3, BurstsKnown DEF HearEcho, MixBurst, Burst, Goto, verifyVars
<1>4. CASE EchoTimeout(t)
  BY <1>4, BurstsKnown DEF EchoTimeout, MixBurst, Burst, Goto, verifyVars
<1>5. CASE Settled(t)
  BY <1>5, BurstsKnown DEF Settled, MixBurst, Burst, Goto, verifyVars
<1>. QED
  BY <1>1, <1>2, <1>3, <1>4, <1>5 DEF Apply

LEMMA ThreadsInWindow ==
  ASSUME TypeOK, StartInv, NEW t \in Thread, Window(t)
  PROVE  ThreadChange
<1>. USE DEF TypeOK, ThreadTypeOK, ThreadChange, TodoChange, BarrierChange, VerifierChange,
             HeardOne, Thread
<1>1. CASE Listen(t)
  BY <1>1 DEF Listen, Bind, Goto, verifyVars
<1>2. CASE RequestDump(t)
  BY <1>2 DEF RequestDump, Goto, verifyVars
<1>3. CASE AwaitReport(t)
  BY <1>3 DEF AwaitReport, Goto, verifyVars
<1>4. CASE NothingHeard(t)
  BY <1>4 DEF NothingHeard, Goto, verifyVars
<1>5. CASE HearReport(t)
  BY <1>5, BurstsKnown DEF HearReport, Goto, ObserveLinks, Burst
<1>6. CASE WindowStopped(t)
  BY <1>6 DEF WindowStopped, CloseWindow, Goto, verifyVars
<1>7. CASE WindowComplete(t)
  BY <1>7 DEF WindowComplete, CloseWindow, Goto, verifyVars
<1>8. CASE WindowDeadline(t)
  BY <1>8 DEF WindowDeadline, CloseWindow, Goto, verifyVars
<1>. QED
  BY <1>1, <1>2, <1>3, <1>4, <1>5, <1>6, <1>7, <1>8 DEF Window

LEMMA ThreadsInVerifier ==
  ASSUME TypeOK, VerifyStep, ~Apply("verify"), ~Window("verify")
  PROVE  ThreadChange
<1>. USE DEF TypeOK, ThreadTypeOK, ThreadChange, TodoChange, BarrierChange, VerifierChange,
             HeardOne, Thread
<1>1. CASE SettlingEnds
  BY <1>1 DEF SettlingEnds, Goto, VerifierEnds
<1>2. CASE VerifyBlind
  BY <1>2 DEF VerifyBlind, Goto, VerifierEnds
<1>3. CASE BlindDelayEnds
  BY <1>3, BurstsKnown DEF BlindDelayEnds, Burst, Goto, VerifierEnds
<1>4. CASE VerifyJudge
  BY <1>4, BurstsKnown DEF VerifyJudge, Goto, VerifierEnds, ReapplyWithoutConfirmation, Burst
<1>5. CASE VerifyReport
  BY <1>5, BurstsKnown DEF VerifyReport, StartApply, Burst, Goto, VerifierEnds
<1>6. CASE VerifyBurstOut
  BY <1>6 DEF VerifyBurstOut, Goto, VerifierEnds
<1>. QED
  BY <1>1, <1>2, <1>3, <1>4, <1>5, <1>6 DEF VerifyStep

LEMMA ThreadsInMain ==
  ASSUME TypeOK, StartInv, MainStep, ~Apply("main"), ~Window("main")
  PROVE  ThreadChange
<1>. USE DEF TypeOK, ThreadTypeOK, ThreadChange, TodoChange, BarrierChange, VerifierChange,
             HeardOne, Thread
<1>1. CASE BackendAwaited
  BY <1>1, BurstsKnown, {} \in SUBSET Reg DEF BackendAwaited, StartApply, Burst, Goto, verifyVars
<1>2. CASE FirstApplyOut
  BY <1>2 DEF FirstApplyOut, StartInv, VerifierAfterReady
<1>3. CASE ReloadApplyOut
  BY <1>3 DEF ReloadApplyOut, Goto, verifyVars
<1>4. CASE ChildWaited
  BY <1>4 DEF ChildWaited, Goto, verifyVars
<1>5. CASE PollReload
  BY <1>5 DEF PollReload, Goto, verifyVars
<1>6. CASE PollStop
  BY <1>6 DEF PollStop, Goto, AtStopCheck, verifyVars
<1>7. CASE Escalate
  BY <1>7 DEF Escalate, Goto, AtStopCheck, verifyVars
<1>8. CASE ReadConfig
  BY <1>8 DEF ReadConfig, Goto, verifyVars
<1>9. CASE ReconcileRefused
  BY <1>9 DEF ReconcileRefused, Goto, verifyVars
<1>10. CASE ReconcileJudge
  BY <1>10, BurstsKnown DEF ReconcileJudge, StartApply, Burst, Goto, verifyVars
<1>11. CASE Exits
  BY <1>11 DEF Exits, verifyVars
<1>. QED
  BY <1>1, <1>2, <1>3, <1>4, <1>5, <1>6, <1>7, <1>8, <1>9, <1>10, <1>11 DEF MainStep

LEMMA ThreadsInNext ==
  ASSUME TypeOK, StartInv, [Next]_vars
  PROVE  ThreadChange
<1>. "main" \in Thread /\ "verify" \in Thread
  BY DEF Thread
<1>1. CASE MainStep
  BY <1>1, ThreadsInApply, ThreadsInWindow, ThreadsInMain
<1>2. CASE VerifyStep
  BY <1>2, ThreadsInApply, ThreadsInWindow, ThreadsInVerifier
<1>3. CASE UNCHANGED <<threadVars, verifyVars>>
  BY <1>3 DEF threadVars, verifyVars, ThreadChange, TodoChange, BarrierChange,
              VerifierChange, HeardOne
<1>4. CASE StopAsked \/ HupAsked \/ UNCHANGED vars
  BY <1>3, <1>4 DEF StopAsked, HupAsked, vars, threadVars, verifyVars
<1>. QED
  BY <1>1, <1>2, <1>3, <1>4 DEF Next

----------------------------------------------------------------------------
(* The inductive invariant, for a set C of configurations that agree on    *)
(* the links they need: what has been ticked off is sure, in the barrier   *)
(* and in the window of the verifier.                                      *)

OneVoice(C) ==
  \A d \in C, m \in LinksNeeded(C) : \A w \in Plan(d) : w.reg = m.reg => w = m

Planned(C) ==
  \A t \in Thread : \A i \in 1 .. Len(todo[t]) : \E d \in C : todo[t][i] \in Plan(d)

TickedOffIsSure ==
  /\ \A t \in Thread :
       pc[t] = "echo" => \A m \in AwaitedOf[cfg[t]] \ pending[t] : Sure(m)
  /\ pc["verify"] # "none" => \A m \in AwaitedOf[cfg["verify"]] \ pendingLinks : Sure(m)

LinkInv(C) ==
  /\ cfg \in [Thread -> C]
  /\ Planned(C)
  /\ \A m \in LinksNeeded(C) : Steady(m)
  /\ TickedOffIsSure

LEMMA NeededAreLinks ==
  ASSUME NEW C \in SUBSET Configs
  PROVE  LinksNeeded(C) \subseteq LinkMessage
  BY PlansAreTyped DEF LinksNeeded, LinkMessage

\* What a thread starts to send is what the configuration plans.
LEMMA BurstsArePlanned ==
  ASSUME NEW c \in Configs, NEW msgs \in BurstsOf(c), NEW i \in 1 .. Len(msgs)
  PROVE  msgs[i] \in Plan(c)
<1>1. CASE msgs = RemixOf[c]
  BY <1>1, PlansAreTyped DEF Plan, ToSet
<1>2. ASSUME NEW s \in SUBSET Reg, NEW plan, plan \in {LinksOf[c], MixesOf[c]},
             msgs = Without(plan, s)
      PROVE  msgs[i] \in Plan(c)
  <2>1. msgs \in Seq(Sendable)
    BY <1>2, PlansAreTyped
  <2>2. ToSet(Without(plan, s)) = {m \in ToSet(plan) : m.reg \notin s}
    <3>1. \A burst \in {LinksOf[c], MixesOf[c]} :
            ToSet(Without(burst, s)) = {m \in ToSet(burst) : m.reg \notin s}
      BY LeftAloneIsDropped
    <3>. QED
      BY <1>2, <3>1
  <2>3. msgs[i] \in ToSet(msgs)
    BY <2>1 DEF ToSet
  <2>4. msgs[i] \in ToSet(plan)
    BY <1>2, <2>2, <2>3
  <2>. QED
    BY <1>2, <2>4 DEF Plan
<1>. QED
  BY <1>1, <1>2 DEF BurstsOf

LEMMA PlannedStep ==
  ASSUME TypeOK, NEW C \in SUBSET Configs, cfg \in [Thread -> C], Planned(C), ThreadChange
  PROVE  Planned(C)'
<1>. SUFFICES ASSUME NEW t \in Thread, NEW i \in 1 .. Len(todo'[t])
              PROVE  \E d \in C : todo'[t][i] \in Plan(d)
  BY DEF Planned
<1>0. todo[t] \in Seq(Sendable) /\ cfg[t] \in C /\ TodoChange(t)
  BY DEF TypeOK, ThreadTypeOK, ThreadChange
<1>1. CASE todo'[t] = todo[t]
  BY <1>1 DEF Planned
<1>2. CASE todo[t] # <<>> /\ todo'[t] = Tail(todo[t])
  <2>1. i + 1 \in 1 .. Len(todo[t]) /\ todo'[t][i] = todo[t][i + 1]
    BY <1>0, <1>2
  <2>. QED
    BY <2>1 DEF Planned
<1>3. CASE todo'[t] \in BurstsOf(cfg[t])
  BY <1>0, <1>3, BurstsArePlanned
<1>. QED
  BY <1>0, <1>1, <1>2, <1>3 DEF TodoChange

\* A link is ticked off when its report is read, and is sure then.
LEMMA TickedOff ==
  ASSUME DeskTypeOK, NEW C, LinkInv(C), NEW m \in LinksNeeded(C),
         NEW before, NEW left, HeardOne(left, before),
         m \notin before => Sure(m), m \notin left
  PROVE  Sure(m)
<1>1. CASE inbox # <<>> /\ m = Head(inbox)
  <2>1. m \in ToSet(inbox)
    BY <1>1 DEF ToSet, DeskTypeOK
  <2>. QED
    BY <2>1 DEF LinkInv, Steady, HeardIsSure
<1>. QED
  BY <1>1 DEF HeardOne

\* Whatever is sent next says the same of the links.
LEMMA HeadsAgree ==
  ASSUME TypeOK, NEW C, OneVoice(C), LinkInv(C), NEW m \in LinksNeeded(C),
         NEW t \in Thread, todo[t] # <<>>
  PROVE  Head(todo[t]) \in Sendable /\ (Head(todo[t]).reg = m.reg => Head(todo[t]) = m)
<1>1. todo[t] \in Seq(Sendable)
  BY DEF TypeOK, ThreadTypeOK
<1>2. 1 \in 1 .. Len(todo[t]) /\ Head(todo[t]) = todo[t][1]
  BY <1>1
<1>3. PICK d \in C : Head(todo[t]) \in Plan(d)
  BY <1>2 DEF LinkInv, Planned
<1>. QED
  BY <1>1, <1>3 DEF OneVoice

LEMMA LinkStep ==
  ASSUME TypeOK, StartInv, NEW C \in SUBSET Configs, OneVoice(C), LinkInv(C),
         HandRegs \intersect LinkRegs = {},
         [Next]_vars, cfg' \in [Thread -> C]
  PROVE  LinkInv(C)'
<1>. DeskTypeOK /\ DeskChange /\ ThreadChange
  BY DeskInNext, ThreadsInNext DEF TypeOK
<1>1. Planned(C)'
  BY PlannedStep DEF LinkInv
<1>2. ASSUME NEW m \in LinksNeeded(C)
      PROVE  Steady(m) /\ Steady(m)' /\ (Sure(m) => Sure(m)')
  <2>1. m \in LinkMessage /\ Steady(m)
    BY NeededAreLinks DEF LinkInv
  <2>. QED
    BY <2>1, HeadsAgree, SteadyInDesk
<1>3. \A t \in Thread : AwaitedOf[cfg[t]] \subseteq LinksNeeded(C)
  BY DEF LinkInv, LinksNeeded
<1>5. ASSUME NEW t \in Thread, pc'[t] = "echo",
             NEW m \in AwaitedOf[cfg'[t]] \ pending'[t]
      PROVE  Sure(m)'
  <2>1. /\ cfg'[t] = cfg[t] /\ m \in LinksNeeded(C)
        /\ pc[t] = "echo" /\ HeardOne(pending'[t], pending[t])
    BY <1>3, <1>5 DEF ThreadChange, BarrierChange
  <2>2. m \notin pending[t] => Sure(m)
    BY <1>5, <2>1 DEF LinkInv, TickedOffIsSure
  <2>3. Sure(m)
    BY <1>5, <2>1, <2>2, TickedOff
  <2>. QED
    BY <1>2, <2>1, <2>3
<1>6. ASSUME pc'["verify"] # "none",
             NEW m \in AwaitedOf[cfg'["verify"]] \ pendingLinks'
      PROVE  Sure(m)'
  <2>. "verify" \in Thread
    BY DEF Thread
  <2>1. /\ cfg'["verify"] = cfg["verify"] /\ m \in LinksNeeded(C)
        /\ pc["verify"] # "none" /\ HeardOne(pendingLinks', pendingLinks)
    BY <1>3, <1>6 DEF ThreadChange, VerifierChange
  <2>2. m \notin pendingLinks => Sure(m)
    BY <1>6, <2>1 DEF LinkInv, TickedOffIsSure
  <2>3. Sure(m)
    BY <1>6, <2>1, <2>2, TickedOff
  <2>. QED
    BY <1>2, <2>1, <2>3
<1>7. TickedOffIsSure'
  BY <1>5, <1>6 DEF TickedOffIsSure
<1>. QED
  BY <1>1, <1>2, <1>7 DEF LinkInv

----------------------------------------------------------------------------
(* A session keeps to the configurations it can reach.                     *)

Keeps(c) == file \in Reachable(c) \union {Broken}

LinksKnown == \E c \in Startups : Keeps(c) /\ LinkInv(Reachable(c))

LEMMA ReachableConfigs ==
  ASSUME NEW c \in Startups
  PROVE  Reachable(c) \subseteq Configs /\ c \in Reachable(c)
  BY DEF Reachable, Configs

LEMMA FileInNext ==
  ASSUME TypeOK, [Next]_vars
  PROVE  file' = file \/ (MaxHups # 0 /\ file' \in Edits)
<1>1. CASE HupAsked
  BY <1>1, SessionConstants DEF HupAsked, TypeOK, HistoryTypeOK
<1>2. CASE MainStep
  BY <1>2 DEF MainStep, Apply, Window, SendNext, ReachBarrier, HearEcho, EchoTimeout, Settled,
              Listen, RequestDump, AwaitReport, NothingHeard, HearReport, WindowStopped,
              WindowComplete, WindowDeadline, CloseWindow, BackendAwaited, FirstApplyOut,
              ReloadApplyOut, ChildWaited, PollReload, PollStop, Escalate, ReadConfig,
              ReconcileRefused, ReconcileJudge, Exits, signalVars
<1>3. CASE VerifyStep
  BY <1>3 DEF VerifyStep, Apply, Window, SendNext, ReachBarrier, HearEcho, EchoTimeout, Settled,
              Listen, RequestDump, AwaitReport, NothingHeard, HearReport, WindowStopped,
              WindowComplete, WindowDeadline, CloseWindow, SettlingEnds, VerifyBlind,
              BlindDelayEnds, VerifyJudge, VerifyReport, VerifyBurstOut, signalVars
<1>4. CASE StopAsked \/ UNCHANGED <<threadVars, verifyVars, signalVars>> \/ UNCHANGED vars
  BY <1>4 DEF StopAsked, signalVars, vars
<1>. QED
  BY <1>1, <1>2, <1>3, <1>4 DEF Next

LEMMA LinksKnownInit == Init => LinksKnown
<1>. SUFFICES ASSUME Init PROVE LinksKnown
  OBVIOUS
<1>1. PICK c \in Startups : cfg = [t \in Thread |-> c]
  BY DEF Init
<1>2. file = c /\ Keeps(c)
  BY <1>1, ReachableConfigs DEF Init, Keeps, Thread
<1>3. cfg \in [Thread -> Reachable(c)]
  BY <1>1, ReachableConfigs
<1>4. Planned(Reachable(c))
  BY DEF Init, Planned
<1>5. \A m \in LinksNeeded(Reachable(c)) : Steady(m)
  BY DEF Init, DeskInit, Steady, ReportIsFinal, HeardIsSure, ToSet
<1>6. TickedOffIsSure
  BY DEF Init, TickedOffIsSure, Thread
<1>. QED
  BY <1>2, <1>3, <1>4, <1>5, <1>6 DEF LinksKnown, LinkInv

LEMMA LinksKnownStep ==
  ASSUME LinksStay, TypeOK, StartInv, LinksKnown, [Next]_vars
  PROVE  LinksKnown'
<1>1. PICK c \in Startups : Keeps(c) /\ LinkInv(Reachable(c))
  BY DEF LinksKnown
<1>2. OneVoice(Reachable(c)) /\ HandRegs \intersect LinkRegs = {}
  BY DEF LinksStay, OneVoice
<1>3. cfg' \in [Thread -> Reachable(c)]
  BY <1>1, ThreadsInNext DEF ThreadChange, Keeps, LinkInv
<1>4. Keeps(c)'
  BY <1>1, FileInNext DEF Keeps, Reachable
<1>5. LinkInv(Reachable(c))'
  BY <1>1, <1>2, <1>3, ReachableConfigs, LinkStep
<1>. QED
  BY <1>4, <1>5 DEF LinksKnown

LEMMA LinksKnownAlways == LinksStay => (Spec => [](TypeOK /\ StartInv /\ LinksKnown))
<1>. SUFFICES ASSUME LinksStay PROVE Spec => [](TypeOK /\ StartInv /\ LinksKnown)
  OBVIOUS
<1>. DEFINE Inv == TypeOK /\ StartInv /\ LinksKnown
<1>1. Init => Inv
  BY TypeInit, StartInit, LinksKnownInit
<1>2. Inv /\ [Next]_vars => Inv'
  BY TypeStep, StartStep, LinksKnownStep
<1>. QED
  BY <1>1, <1>2, PTL DEF Spec

\* The sweep over the awaited links of a thread whose wait ends with none left.
LEMMA NoneLeft ==
  ASSUME TypeOK, LinksKnown, NEW t \in Thread, NEW before,
         HeardOne({}, before),
         \A m \in AwaitedOf[cfg[t]] \ before : Sure(m)
  PROVE  ViewAgrees(cfg[t])
<1>1. PICK c \in Startups : LinkInv(Reachable(c))
  BY DEF LinksKnown
<1>2. SUFFICES ASSUME NEW m \in AwaitedOf[cfg[t]] PROVE Sure(m)
  BY DEF ViewAgrees, Sure
<1>3. m \in LinksNeeded(Reachable(c))
  BY <1>1 DEF LinkInv, LinksNeeded
<1>. QED
  BY <1>1, <1>3, TickedOff DEF TypeOK

\* Whatever is lost, dies or is asked for, in a session that does not turn its
\* links round: a barrier that reports have ended has heard the right ones.
THEOREM BarrierHeard == LinksStay => (Spec => BarrierHeardLinks)
<1>1. ASSUME TypeOK, StartInv, LinksKnown, [Next]_vars
      PROVE  [\A t \in Thread :
                pc[t] = "echo" /\ pc'[t] = "mix" /\ pending'[t] = {}
                => ViewAgrees(cfg[t])]_vars
  <2>. SUFFICES ASSUME NEW t \in Thread,
                       pc[t] = "echo" /\ pc'[t] = "mix" /\ pending'[t] = {}
                PROVE  ViewAgrees(cfg[t])
    OBVIOUS
  <2>1. HeardOne({}, pending[t])
    BY <1>1, ThreadsInNext DEF ThreadChange, BarrierChange
  <2>2. \A m \in AwaitedOf[cfg[t]] \ pending[t] : Sure(m)
    BY <1>1 DEF LinksKnown, LinkInv, TickedOffIsSure
  <2>. QED
    BY <1>1, <2>1, <2>2, NoneLeft
<1>. QED
  BY <1>1, LinksKnownAlways, PTL DEF Spec, BarrierHeardLinks

\* And the mix is written again from within the window only when oscmix has
\* the links that it was planned for.
THEOREM ReappliedFromKnownLinks == LinksStay => (Spec => ReapplyFromKnownLinks)
<1>1. ASSUME TypeOK, StartInv, LinksKnown, [Next]_vars
      PROVE  [pc["verify"] = "recv" /\ pc'["verify"] = "remix"
                => ViewAgrees(cfg["verify"])]_vars
  <2>. SUFFICES ASSUME pc["verify"] = "recv" /\ pc'["verify"] = "remix"
                PROVE  ViewAgrees(cfg["verify"])
    OBVIOUS
  <2>. "verify" \in Thread
    BY DEF Thread
  <2>1. HeardOne({}, pendingLinks)
    BY <1>1, ThreadsInNext DEF ThreadChange, VerifierChange
  <2>2. \A m \in AwaitedOf[cfg["verify"]] \ pendingLinks : Sure(m)
    BY <1>1 DEF LinksKnown, LinkInv, TickedOffIsSure
  <2>. QED
    BY <1>1, <2>1, <2>2, NoneLeft
<1>. QED
  BY <1>1, LinksKnownAlways, PTL DEF Spec, ReapplyFromKnownLinks

----------------------------------------------------------------------------
(* Reports of any register: where they are, and that they are true.        *)

\* A backend that is up now was up, or has just been awaited.
LEMMA WasUp ==
  ASSUME DeskChange, child' = "up"
  PROVE  child \in {"up", "starting"}
  BY DEF DeskChange, ControlStep, KeepsReports, RefreshStep, PutRefresh, Sends, PutRegister,
         DumpNext, Deliver, BackendBinds, LosesBackend, HandTurns

LEMMA NothingLost ==
  ASSUME MaxDrops = 0, TypeOK
  PROVE  /\ \A w : PutRegister(w) /\ child = "up" => dev' = Written(w) /\ wire' = Echoed(w)
         /\ PutRefresh /\ child = "up" => dump' = DumpOrder
         /\ Deliver /\ port \in Thread => inbox' = Append(inbox, Head(wire))
<1>1. drops = 0 /\ MaxDrops = 0
  BY DEF TypeOK, DeskTypeOK
<1>2. \A lost \in BOOLEAN : MayLose(lost) => ~lost
  BY <1>1 DEF MayLose
<1>. QED
  BY <1>2 DEF PutRegister, PutRefresh, Deliver

\* Where the parts of an apply are.
FirstApply == {"links", "echo", "settle", "mix"}

UnderWay == ToSet(wire) \union ToSet(inbox)

\* A message leaves every register alone that is neither its own nor a cell.
LEMMA NoCellWritten ==
  ASSUME DeskTypeOK, NEW w \in Sendable, NEW r \in Reg, r[1] # "mix"
  PROVE  Written(w)[r] = IF w.reg = r THEN w.args ELSE dev[r]
<1>1. CASE w.reg[1] # "mix"
  BY <1>1 DEF Written, DeskTypeOK
<1>2. CASE w.reg[1] = "mix" /\ ~Linked(w.reg[2])
  BY <1>2 DEF Written, DeskTypeOK
<1>3. CASE w.reg[1] = "mix" /\ Linked(w.reg[2])
  <2>. DEFINE one == Cell(OddOf(w.reg[2]), w.reg[3], w.reg[4])
              two == Cell(OddOf(w.reg[2]) + 1, w.reg[3], w.reg[4])
  <2>1. r # one /\ r # two /\ r # w.reg
    BY <1>3 DEF Cell
  <2>2. PICK a, b : Written(w) = [dev EXCEPT ![one] = a, ![two] = b]
    BY <1>3 DEF Written
  <2>. HIDE DEF one, two
  <2>. QED
    BY <2>1, <2>2 DEF DeskTypeOK
<1>. QED
  BY <1>1, <1>2, <1>3

LEMMA SentIsSendable ==
  ASSUME TypeOK, NEW t \in Thread, todo[t] # <<>>
  PROVE  /\ todo[t] \in Seq(Sendable) /\ 1 \in 1 .. Len(todo[t])
         /\ Head(todo[t]) = todo[t][1] /\ Head(todo[t]) \in Sendable
<1>1. todo[t] \in Seq(Sendable)
  BY DEF TypeOK, ThreadTypeOK
<1>. QED
  BY <1>1

\* A report is of a message that was sent, of a hand or of the dump.
Reason(m) ==
  \/ m.reg \in LinkRegs /\ \E t \in Thread : Sends(t) /\ m = Head(todo[t])
  \/ m.reg \in LinkRegs \intersect HandRegs
  \/ m.reg \in ToSet(dump)

\* It is true when it is made.
LEMMA ReportsAreTrue ==
  ASSUME TypeOK, DeskChange, NEW m \in UnderWay'
  PROVE  m \in UnderWay \/ (m.args = dev'[m.reg] /\ Reason(m))
<1>0. wire \in Seq(Report) /\ inbox \in Seq(Report) /\ dump \in Seq(Reg)
  BY DEF TypeOK, DeskTypeOK
<1>1. ASSUME NEW w \in Report, wire' = wire \/ wire' = Append(wire, w), inbox' = inbox
      PROVE  m \in UnderWay \/ (m = w /\ wire' = Append(wire, w))
  <2>1. ToSet(Append(wire, w)) = ToSet(wire) \union {w}
    BY <1>0, Appended
  <2>. QED
    BY <1>1, <2>1 DEF UnderWay
<1>2. ASSUME NEW t \in Thread, Sends(t)
      PROVE  m \in UnderWay \/ (m.args = dev'[m.reg] /\ Reason(m))
  <2>. DEFINE w == Head(todo[t])
  <2>1. w \in Sendable
    BY <1>2, SentIsSendable DEF Sends
  <2>2. \/ wire' = wire
        \/ wire' = Append(wire, w) /\ w.reg \in LinkRegs /\ dev' = Written(w)
    BY <1>2 DEF Sends, PutRegister, Echoed
  <2>3. inbox' = inbox
    BY <1>2 DEF Sends
  <2>4. w.reg \in LinkRegs => Reason(w)
    BY <1>2 DEF Reason
  <2>. HIDE DEF w
  <2>5. m \in UnderWay \/ (m = w /\ wire' = Append(wire, w))
    BY <1>1, <2>1, <2>2, <2>3 DEF Sendable
  <2>6. w.reg \in LinkRegs => w.reg \in Reg /\ w.reg[1] # "mix" /\ Written(w)[w.reg] = w.args
    BY <2>1, NoCellWritten DEF LinkRegs, TypeOK
  <2>. QED
    BY <2>2, <2>3, <2>4, <2>5, <2>6 DEF UnderWay
<1>3. ASSUME NEW r \in HandRegs, HandTurns(r)
      PROVE  m \in UnderWay \/ (m.args = dev'[m.reg] /\ m.reg \in LinkRegs \intersect HandRegs)
  <2>1. PICK v \in FaderValues :
          dev' = [dev EXCEPT ![r] = v] /\ wire' = Echoed(Message(r, v))
    BY <1>3 DEF HandTurns
  <2>2. Message(r, v) \in Report /\ inbox' = inbox
    BY <1>3, DeskConstants DEF Message, Report, HandTurns
  <2>3. wire' = wire \/ (wire' = Append(wire, Message(r, v)) /\ r \in LinkRegs)
    BY <2>1 DEF Echoed, Message
  <2>4. m \in UnderWay \/ (m = Message(r, v) /\ r \in LinkRegs)
    BY <1>1, <2>2, <2>3 DEF UnderWay
  <2>. QED
    BY <2>1, <2>4, DeskConstants DEF Message, TypeOK, DeskTypeOK
<1>4. CASE DumpNext
  <2>1. /\ dump # <<>> /\ wire' = <<Message(Head(dump), dev[Head(dump)])>>
        /\ inbox' = inbox /\ dev' = dev
    BY <1>4 DEF DumpNext
  <2>2. Head(dump) \in ToSet(dump)
    BY <1>0, <2>1 DEF ToSet
  <2>3. ToSet(wire') = {Message(Head(dump), dev[Head(dump)])}
    BY <2>1 DEF ToSet
  <2>. QED
    BY <2>1, <2>2, <2>3 DEF UnderWay, Message, Reason
<1>5. CASE Deliver
  <2>1. /\ wire # <<>> /\ wire' = Tail(wire)
        /\ inbox' = inbox \/ inbox' = Append(inbox, Head(wire))
    BY <1>5 DEF Deliver
  <2>2. Head(wire) \in Report /\ Head(wire) \in ToSet(wire)
    BY <1>0, <2>1 DEF ToSet
  <2>3. ToSet(Append(inbox, Head(wire))) = ToSet(inbox) \union {Head(wire)}
    BY <1>0, <2>2, Appended
  <2>4. ToSet(Tail(wire)) \subseteq ToSet(wire)
    BY <1>0, <2>1 DEF ToSet
  <2>. QED
    BY <2>1, <2>2, <2>3, <2>4 DEF UnderWay
<1>6. CASE ControlStep
  <2>1. inbox # <<>> => ToSet(Tail(inbox)) \subseteq ToSet(inbox)
    BY <1>0 DEF ToSet
  <2>2. ToSet(<<>>) = {}
    BY DEF ToSet
  <2>. QED
    BY <1>6, <2>1, <2>2 DEF ControlStep, KeepsReports, UnderWay
<1>7. CASE RefreshStep \/ BackendBinds \/ LosesBackend
  BY <1>7 DEF RefreshStep, PutRefresh, BackendBinds, LosesBackend, UnderWay, ToSet
<1>. QED
  BY <1>2, <1>3, <1>4, <1>5, <1>6, <1>7 DEF DeskChange, Reason

LEMMA DumpShrinks ==
  ASSUME DeskTypeOK, DeskChange
  PROVE  ToSet(dump') \subseteq ToSet(dump) \union ToSet(DumpOrder)
<1>0. dump # <<>> => ToSet(Tail(dump)) \subseteq ToSet(dump)
  BY DEF DeskTypeOK, ToSet
<1>1. ToSet(<<>>) = {}
  BY DEF ToSet
<1>2. \/ dump' = dump \/ dump' = <<>> \/ dump' = DumpOrder
      \/ dump # <<>> /\ dump' = Tail(dump)
  BY DEF DeskChange, ControlStep, KeepsReports, RefreshStep, PutRefresh, Sends, PutRegister,
         DumpNext, Deliver, BackendBinds, LosesBackend, HandTurns
<1>. QED
  BY <1>0, <1>1, <1>2

\* A report on its way moves from the wire to the port ...
LEMMA ReportsArrive ==
  ASSUME MaxDrops = 0, TypeOK, NEW m \in UnderWay, port \in Thread,
         DeskChange, child' = "up", Deliver \/ inbox' = inbox
  PROVE  m \in UnderWay'
<1>0. wire \in Seq(Report) /\ inbox \in Seq(Report)
  BY DEF TypeOK, DeskTypeOK
<1>1. CASE Deliver
  <2>1. /\ wire # <<>> /\ wire' = Tail(wire) /\ Head(wire) \in Report
        /\ inbox' = Append(inbox, Head(wire))
    BY <1>0, <1>1, NothingLost DEF Deliver
  <2>2. ToSet(inbox') = ToSet(inbox) \union {Head(wire)}
    BY <1>0, <2>1, Appended
  <2>3. m \in ToSet(wire) => m = Head(wire) \/ m \in ToSet(Tail(wire))
    BY <1>0, <2>1, HeadOrTail
  <2>. QED
    BY <2>1, <2>2, <2>3 DEF UnderWay
<1>2. CASE DumpNext
  BY <1>2 DEF DumpNext, UnderWay, ToSet
<1>3. ASSUME NEW w \in Report, wire' = wire \/ wire' = Append(wire, w), inbox' = inbox
      PROVE  m \in UnderWay'
  <2>1. ToSet(Append(wire, w)) = ToSet(wire) \union {w}
    BY <1>0, Appended
  <2>. QED
    BY <1>3, <2>1 DEF UnderWay
<1>4. ASSUME NEW t \in Thread, Sends(t)
      PROVE  m \in UnderWay'
  <2>1. Head(todo[t]) \in Report
    BY <1>4, SentIsSendable DEF Sends, Sendable
  <2>2. wire' = wire \/ wire' = Append(wire, Head(todo[t]))
    BY <1>4 DEF Sends, PutRegister, Echoed
  <2>. QED
    BY <1>3, <1>4, <2>1, <2>2 DEF Sends
<1>5. ASSUME NEW r \in HandRegs, HandTurns(r)
      PROVE  m \in UnderWay'
  <2>1. PICK v \in FaderValues : wire' = Echoed(Message(r, v))
    BY <1>5 DEF HandTurns
  <2>2. Message(r, v) \in Report
    BY DeskConstants DEF Message, Report
  <2>3. wire' = wire \/ wire' = Append(wire, Message(r, v))
    BY <2>1 DEF Echoed
  <2>. QED
    BY <1>3, <1>5, <2>2, <2>3 DEF HandTurns
<1>6. CASE RefreshStep
  BY <1>6 DEF RefreshStep, PutRefresh, UnderWay
<1>7. CASE (ControlStep \/ BackendBinds) /\ inbox' = inbox
  BY <1>7 DEF ControlStep, KeepsReports, BackendBinds, UnderWay
<1>. QED
  BY <1>1, <1>2, <1>4, <1>5, <1>6, <1>7 DEF DeskChange, LosesBackend, BackendBinds

\* ... where the dump has put it.
LEMMA DumpArrives ==
  ASSUME TypeOK, NEW r \in ToSet(dump), r \in ToSet(DumpOrder), DeskChange, child' = "up"
  PROVE  r \in ToSet(dump') \/ Message(r, dev[r]) \in ToSet(wire')
<1>0. dump \in Seq(Reg)
  BY DEF TypeOK, DeskTypeOK
<1>1. CASE DumpNext
  <2>1. dump # <<>> /\ dump' = Tail(dump) /\ wire' = <<Message(Head(dump), dev[Head(dump)])>>
    BY <1>1 DEF DumpNext
  <2>2. r = Head(dump) \/ r \in ToSet(Tail(dump))
    BY <1>0, <2>1, HeadOrTail
  <2>3. Message(Head(dump), dev[Head(dump)]) \in ToSet(wire')
    BY <2>1 DEF ToSet
  <2>. QED
    BY <2>1, <2>2, <2>3
<1>2. CASE dump' = dump \/ dump' = DumpOrder
  BY <1>2
<1>. QED
  BY <1>1, <1>2 DEF DeskChange, ControlStep, KeepsReports, RefreshStep, PutRefresh, Sends,
     PutRegister, Deliver, BackendBinds, LosesBackend, HandTurns

----------------------------------------------------------------------------
(* What the device may keep.  A thread that writes over a remembered       *)
(* register has read the value that is there, unless the register has      *)
(* moved since.                                                            *)

Remembered == {r \in Reg : \E c \in Configs : PolicyFor(c, r) = REMEMBER}

\* The remembered registers a file says something of.
SaidOf(c) == {m.reg : m \in Plan(c)} \intersect Remembered

Observing  == {"top", "recv", "remix"}
Concluding == {"judge", "rewrite", "report"}

\* An apply that leaves alone what a window has found.
InApply(t) == pc[t] \in FirstApply /\ (t = "verify" \/ ready)

HasRead(t) == pc[t] \in {"refresh"} \union Observing \union Concluding \/ InApply(t)

\* Before READY nothing is read, and the session waits for the backend.
ReadsAfterReady ==
  /\ child = "starting" => pc["main"] = "boot"
  /\ pc["main"] = "boot" => ~ready
  /\ ~ready => /\ pc["main"] \in {"boot", "supervise", "join", "exit"} \union FirstApply
               /\ pc["main"] = "supervise" => child = "dead"
               /\ dump = <<>> /\ \A m \in UnderWay : m.reg \notin Remembered

OnlyTheMix(t) ==
  pc[t] \in {"remix", "rewrite", "blindmix"} =>
    \A i \in 1 .. Len(todo[t]) : todo[t][i] \in ToSet(RemixOf[cfg[t]])

\* Nobody else has moved it: the reports of it are true, and so is what was
\* confirmed from one.
TellsTrue(t) ==
  \A r \in Remembered \ moved[t] :
    /\ \A m \in UnderWay : m.reg = r => m.args = dev[r]
    /\ HasRead(t) /\ r \in confirmed[t] => Message(r, dev[r]) \in WantedOf[cfg[t]]

\* What the file says of a remembered register is compared with a report.
HearsAll(t) ==
  /\ pc[t] = "refresh" => confirmed[t] = {}
  /\ \A r \in SaidOf(cfg[t]) : child = "up" =>
       /\ pc[t] \in Observing =>
            \/ r \in confirmed[t] \union mismatched[t] \/ r \in ToSet(dump)
            \/ \E m \in UnderWay : m.reg = r
       /\ pc[t] \in Concluding /\ ~stop => r \in confirmed[t] \union mismatched[t]

\* An apply leaves alone what differed.
WritesConfirmed(t) ==
  InApply(t) /\ child = "up" =>
    /\ \A i \in 1 .. Len(todo[t]) : todo[t][i] \in Plan(cfg[t]) /\ todo[t][i].reg \notin skip[t]
    /\ SaidOf(cfg[t]) \subseteq skip[t] \union confirmed[t]

RememberInv ==
  /\ ReadsAfterReady
  /\ \A t \in Thread : OnlyTheMix(t) /\ TellsTrue(t) /\ HearsAll(t) /\ WritesConfirmed(t)

LEMMA RememberedFacts ==
  ASSUME KeepsWhatItReads, NEW r \in Remembered
  PROVE  /\ r \in Reg /\ r[1] # "mix" /\ r \notin LinkRegs /\ RegisterEverReported(r)
         /\ \A c \in Configs : PolicyFor(c, r) = REMEMBER
<1>1. PICK d \in Configs : PolicyFor(d, r) = REMEMBER
  BY DEF Remembered
<1>2. r \in Reg /\ \A c \in Configs : PolicyFor(c, r) = REMEMBER
  BY <1>1 DEF Remembered, KeepsWhatItReads
<1>3. r[1] # "mix" /\ r[3] # "stereo"
  <2>1. CASE Len(r) = 3 /\ <<r[1], r[3]>> \in DOMAIN d.policies
    BY <1>1, <2>1 DEF KeepsWhatItReads
  <2>2. CASE ~(Len(r) = 3 /\ <<r[1], r[3]>> \in DOMAIN d.policies)
    <3>1. RegisterPolicy(r) = REMEMBER
      BY <1>1, <2>2 DEF PolicyFor
    <3>. QED
      BY <3>1 DEF RegisterPolicy, PIN, REMEMBER
  <2>. QED
    BY <2>1, <2>2
<1>. QED
  BY <1>2, <1>3 DEF LinkRegs, RegisterEverReported, IsPlaybackMix

LEMMA SaidFacts ==
  ASSUME KeepsWhatItReads, NEW c \in Configs, NEW m \in Plan(c), m.reg \in Remembered
  PROVE  /\ m.reg \in SaidOf(c) /\ m.reg \in RegistersOf[c] /\ m.reg \in ToSet(DumpOrder) \ Late
         /\ m \notin ToSet(RemixOf[c])
         /\ \A w \in Plan(c) : w.reg = m.reg => w = m
<1>1. PolicyFor(c, m.reg) = REMEMBER
  BY RememberedFacts
<1>2. m.reg \in SaidOf(c)
  BY DEF SaidOf
<1>. QED
  BY <1>1, <1>2 DEF KeepsWhatItReads

\* Who writes over a remembered register knows what is there.
LEMMA WriterHasRead ==
  ASSUME KeepsWhatItReads, TypeOK, NEW t \in Thread, OnlyTheMix(t), TellsTrue(t),
         WritesConfirmed(t), Sends(t), NEW r \in Remembered, dev'[r] # dev[r]
  PROVE  r \in moved[t] \/ (t = "main" /\ ~ready)
<1>. DEFINE w == Head(todo[t])
<1>1. cfg[t] \in Configs /\ todo[t] # <<>> /\ pc[t] \in Writing /\ DeskTypeOK
  BY DEF Sends, TypeOK, ThreadTypeOK
<1>2. w \in Sendable /\ 1 \in 1 .. Len(todo[t]) /\ w = todo[t][1]
  BY <1>1, SentIsSendable
<1>3. child = "up" /\ dev' = Written(w)
  BY DEF Sends, PutRegister
<1>. HIDE DEF w
<1>4. w.reg = r /\ w.args # dev[r]
  BY <1>1, <1>2, <1>3, RememberedFacts, NoCellWritten
<1>5. CASE InApply(t)
  <2>1. w \in Plan(cfg[t]) /\ w.reg \notin skip[t] /\ SaidOf(cfg[t]) \subseteq skip[t] \union confirmed[t]
    BY <1>2, <1>3, <1>5 DEF WritesConfirmed
  <2>2. r \in confirmed[t]
    BY <1>1, <1>4, <2>1, SaidFacts
  <2>3. SUFFICES ASSUME r \notin moved[t] PROVE FALSE
    OBVIOUS
  <2>4. Message(r, dev[r]) \in WantedOf[cfg[t]]
    BY <1>5, <2>2, <2>3 DEF TellsTrue, HasRead
  <2>5. Message(r, dev[r]) \in Plan(cfg[t])
    BY <1>1, <2>4, PlansComeFromRoutes DEF Plan
  <2>6. Message(r, dev[r]) = w
    BY <1>1, <1>4, <2>1, <2>5, SaidFacts DEF Message
  <2>. QED
    BY <1>4, <2>6 DEF Message
<1>6. CASE pc[t] \in {"remix", "rewrite", "blindmix"}
  <2>1. w \in ToSet(RemixOf[cfg[t]]) /\ w \in Plan(cfg[t])
    BY <1>2, <1>6 DEF OnlyTheMix, Plan
  <2>. QED
    BY <1>1, <1>4, <2>1, SaidFacts
<1>. QED
  BY <1>1, <1>5, <1>6 DEF InApply, FirstApply, Writing, Thread

----------------------------------------------------------------------------
(* How a thread gets through a window and an apply.                        *)

KeepsWindow(t) == confirmed'[t] = confirmed[t] /\ mismatched'[t] = mismatched[t]

Observes(t) ==
  \/ pc[t] = "refresh" /\ PutRefresh /\ KeepsWindow(t)
  \/ pc[t] \in Observing /\ KeepsWindow(t) /\ (Deliver \/ inbox' = inbox)
  \/ /\ pc[t] = "recv" /\ inbox # <<>> /\ inbox' = Tail(inbox) /\ KeepsReports
     /\ Absorb(t, Head(inbox))

WindowIsOver(t) ==
  \/ ShouldStop(t) \/ DeadlineFor(Registers(t))
  \/ WindowMayClose(Registers(t), confirmed[t], mismatched[t])

Concludes(t) ==
  /\ KeepsWindow(t)
  /\ \/ pc[t] \in Concluding
     \/ pc[t] = "top" /\ WindowIsOver(t) /\ KeepsReports

Applies(t) ==
  /\ KeepsWindow(t)
  /\ \/ /\ InApply(t) /\ skip'[t] = skip[t]
        /\ \/ todo'[t] = todo[t]
           \/ Sends(t) /\ todo'[t] = Tail(todo[t])
           \/ pc'[t] # pc[t] /\ todo'[t] = Without(MixesOf[cfg[t]], skip[t])
     \/ /\ pc[t] \in Concluding /\ ~ShouldStop(t) /\ KeepsReports
        /\ skip'[t] = Kept(t) /\ todo'[t] = Without(LinksOf[cfg[t]], Kept(t))

Remixes(t) ==
  \/ pc'[t] = pc[t] /\ todo'[t] = todo[t]
  \/ pc'[t] = pc[t] /\ Sends(t) /\ todo'[t] = Tail(todo[t])
  \/ pc'[t] # pc[t] /\ todo'[t] = RemixOf[cfg[t]]

ChangesSeen(t) == \A r \in Reg : RegisterEverReported(r) /\ dev'[r] # dev[r] => r \in moved'[t]

Path(t) ==
  /\ pc'[t] = "refresh" => confirmed'[t] = {} \/ (pc[t] = "refresh" /\ KeepsWindow(t))
  /\ pc'[t] \in Observing => Observes(t)
  /\ pc'[t] \in Concluding => Concludes(t)
  /\ InApply(t)' => Applies(t)
  /\ pc'[t] \in {"remix", "rewrite", "blindmix"} => Remixes(t)
  /\ HasRead(t)' \/ pc'[t] = "blindmix" => cfg'[t] = cfg[t]
  /\ (stop => stop') /\ (ready => ready')
  /\ Sends(t) \/ ChangesSeen(t)
  /\ \/ moved[t] \subseteq moved'[t]
     \/ pc[t] = "refresh" /\ KeepsWindow(t) /\ wire' = <<>> /\ inbox' = <<>>

\* A step that is not the thread's.
Rests(t) ==
  /\ pc'[t] = pc[t] /\ todo'[t] = todo[t] /\ skip'[t] = skip[t] /\ cfg'[t] = cfg[t]
  /\ KeepsWindow(t)
  /\ pc[t] \in Observing => Deliver \/ inbox' = inbox
  /\ (stop => stop') /\ (ready => ready') /\ (t = "main" => ready' = ready)
  /\ ChangesSeen(t) /\ moved[t] \subseteq moved'[t]

LEMMA RestsOnPath ==
  ASSUME NEW t \in Thread, Rests(t)
  PROVE  Path(t)
  BY DEF Rests, Path, Observes, Concludes, Applies, Remixes, InApply, Thread

LEMMA PathInApply ==
  ASSUME TypeOK, NEW t \in Thread, Apply(t)
  PROVE  Path(t)
<1>. USE DEF TypeOK, ThreadTypeOK, Path, KeepsWindow, Observes, Concludes, Applies, Remixes,
             InApply, ChangesSeen, FirstApply, Observing, Concluding, HasRead
<1>1. CASE SendNext(t)
  BY <1>1 DEF SendNext, Sends, MovedBy, PutRegister, signalVars
<1>2. CASE ReachBarrier(t)
  BY <1>2 DEF ReachBarrier, MixBurst, Burst, Goto, Bind, history, signalVars
<1>3. CASE HearEcho(t)
  BY <1>3 DEF HearEcho, MixBurst, Burst, Goto, history, signalVars
<1>4. CASE EchoTimeout(t)
  BY <1>4 DEF EchoTimeout, MixBurst, Burst, Goto, history, signalVars
<1>5. CASE Settled(t)
  BY <1>5 DEF Settled, MixBurst, Burst, Goto, deskVars, history, signalVars
<1>. QED
  BY <1>1, <1>2, <1>3, <1>4, <1>5 DEF Apply

LEMMA PathInWindow ==
  ASSUME TypeOK, NEW t \in Thread, Window(t)
  PROVE  Path(t)
<1>. USE DEF TypeOK, ThreadTypeOK, Path, KeepsWindow, Observes, Concludes, Applies, Remixes,
             InApply, ChangesSeen, FirstApply, Observing, Concluding, HasRead
<1>1. CASE Listen(t)
  BY <1>1 DEF Listen, Bind, Goto, history, signalVars
<1>2. CASE RequestDump(t)
  BY <1>2 DEF RequestDump, PutRefresh, Goto, signalVars, HistoryTypeOK
<1>3. CASE AwaitReport(t)
  BY <1>3 DEF AwaitReport, Goto, deskVars, history, signalVars
<1>4. CASE NothingHeard(t)
  BY <1>4 DEF NothingHeard, Goto, deskVars, history, signalVars
<1>5. CASE HearReport(t)
  <2>1. /\ pc[t] = "recv" /\ inbox # <<>> /\ inbox' = Tail(inbox) /\ KeepsReports
        /\ Absorb(t, Head(inbox)) /\ cfg' = cfg /\ UNCHANGED signalVars /\ UNCHANGED history
    BY <1>5 DEF HearReport, KeepsReports
  <2>2. pc'[t] = "top" \/ (pc'[t] = "remix" /\ todo'[t] = RemixOf[cfg[t]])
    BY <1>5 DEF HearReport, ObserveLinks, Burst, Goto
  <2>. QED
    BY <2>1, <2>2 DEF KeepsReports, history, signalVars
<1>6. CASE WindowStopped(t) \/ WindowComplete(t) \/ WindowDeadline(t)
  <2>1. CloseWindow(t) /\ WindowIsOver(t)
    BY <1>6 DEF WindowStopped, WindowComplete, WindowDeadline, WindowIsOver
  <2>. QED
    BY <2>1 DEF CloseWindow, Goto, history, signalVars, KeepsReports
<1>. QED
  BY <1>1, <1>2, <1>3, <1>4, <1>5, <1>6 DEF Window

LEMMA RestsInApply ==
  ASSUME TypeOK, PortDiscipline, NEW t \in Thread, NEW u \in Thread \ {t}, Apply(u)
  PROVE  Rests(t)
<1>0. pc[t] \in Observing => port = t /\ port # u
  BY DEF PortDiscipline, Observing, Listening
<1>. USE DEF TypeOK, ThreadTypeOK, HistoryTypeOK, Rests, KeepsWindow, ChangesSeen
<1>1. CASE SendNext(u)
  BY <1>1 DEF SendNext, MovedBy, PutRegister, signalVars
<1>2. CASE ReachBarrier(u)
  BY <1>0, <1>2 DEF ReachBarrier, MixBurst, Burst, Goto, Bind, history, signalVars, Thread
<1>3. CASE HearEcho(u)
  BY <1>0, <1>3 DEF HearEcho, MixBurst, Burst, Goto, history, signalVars, PortDiscipline, Listening
<1>4. CASE EchoTimeout(u)
  BY <1>0, <1>4 DEF EchoTimeout, MixBurst, Burst, Goto, history, signalVars, PortDiscipline, Listening
<1>5. CASE Settled(u)
  BY <1>5 DEF Settled, MixBurst, Burst, Goto, deskVars, history, signalVars
<1>. QED
  BY <1>1, <1>2, <1>3, <1>4, <1>5 DEF Apply

LEMMA RestsInWindow ==
  ASSUME TypeOK, PortDiscipline, NEW t \in Thread, NEW u \in Thread \ {t}, Window(u)
  PROVE  Rests(t)
<1>0. pc[t] \in Observing => port = t /\ port # u
  BY DEF PortDiscipline, Observing, Listening
<1>. USE DEF TypeOK, ThreadTypeOK, HistoryTypeOK, Rests, KeepsWindow, ChangesSeen
<1>1. CASE Listen(u)
  BY <1>0, <1>1 DEF Listen, Bind, Goto, history, signalVars, Thread
<1>2. CASE RequestDump(u)
  BY <1>2 DEF RequestDump, PutRefresh, Goto, signalVars
<1>3. CASE AwaitReport(u) \/ NothingHeard(u)
  BY <1>3 DEF AwaitReport, NothingHeard, Goto, deskVars, history, signalVars
<1>4. CASE HearReport(u)
  <2>1. port = u
    BY <1>4 DEF HearReport, PortDiscipline, Listening
  <2>2. /\ confirmed'[t] = confirmed[t] /\ mismatched'[t] = mismatched[t]
        /\ pc'[t] = pc[t] /\ todo'[t] = todo[t]
    BY <1>4 DEF HearReport, Absorb, ObserveLinks, Burst, Goto
  <2>. QED
    BY <1>0, <1>4, <2>1, <2>2 DEF HearReport, history, signalVars
<1>5. CASE WindowStopped(u) \/ WindowComplete(u) \/ WindowDeadline(u)
  <2>1. CloseWindow(u) /\ port = u
    BY <1>5 DEF WindowStopped, WindowComplete, WindowDeadline, CloseWindow, PortDiscipline, Listening
  <2>. QED
    BY <1>0, <2>1 DEF CloseWindow, Goto, history, signalVars
<1>. QED
  BY <1>1, <1>2, <1>3, <1>4, <1>5 DEF Window

LEMMA PathInVerifier ==
  ASSUME TypeOK, VerifyStep, ~Apply("verify"), ~Window("verify")
  PROVE  Path("verify") /\ Rests("main")
<1>. "verify" \in Thread /\ "main" \in Thread /\ "main" # "verify"
  BY DEF Thread
<1>1. /\ UNCHANGED <<dev, inbox, cfg, confirmed, mismatched>> /\ UNCHANGED signalVars
      /\ UNCHANGED history /\ pc'["main"] = pc["main"] /\ todo'["main"] = todo["main"]
      /\ skip'["main"] = skip["main"]
  BY DEF VerifyStep, SettlingEnds, VerifyBlind, BlindDelayEnds, VerifyJudge, VerifyReport, VerifyBurstOut,
         VerifierEnds, ReapplyWithoutConfirmation, StartApply, Burst, Goto, PutRefresh, deskVars, history,
         TypeOK, ThreadTypeOK
<1>2. Rests("main")
  BY <1>1 DEF Rests, KeepsWindow, ChangesSeen, history, signalVars
<1>. SUFFICES Path("verify")
  BY <1>2
<1>. USE DEF TypeOK, ThreadTypeOK, Path, KeepsWindow, Observes, Concludes, Applies, Remixes,
             InApply, ChangesSeen, FirstApply, Observing, Concluding, HasRead, history, signalVars
<1>3. CASE SettlingEnds
  BY <1>1, <1>3 DEF SettlingEnds, VerifierEnds, Goto
<1>4. CASE VerifyBlind
  BY <1>1, <1>4 DEF VerifyBlind, VerifierEnds, Goto
<1>5. CASE BlindDelayEnds
  BY <1>1, <1>5 DEF BlindDelayEnds, VerifierEnds, Burst, Goto
<1>6. CASE VerifyJudge
  BY <1>1, <1>6 DEF VerifyJudge, VerifierEnds, ReapplyWithoutConfirmation, Burst, Goto
<1>7. CASE VerifyReport
  BY <1>1, <1>7 DEF VerifyReport, VerifierEnds, StartApply, Burst, Goto, KeepsReports, deskVars
<1>8. CASE VerifyBurstOut
  BY <1>1, <1>8 DEF VerifyBurstOut, VerifierEnds, Goto, deskVars
<1>. QED
  BY <1>3, <1>4, <1>5, <1>6, <1>7, <1>8 DEF VerifyStep

LEMMA PathInMain ==
  ASSUME TypeOK, ReadsAfterReady, MainStep, ~Apply("main"), ~Window("main")
  PROVE  Path("main") /\ Path("verify")
<1>. "verify" \in Thread /\ "main" \in Thread /\ "main" # "verify"
  BY DEF Thread
<1>1. /\ UNCHANGED <<dev, confirmed, mismatched, stop, moved>> /\ (ready => ready')
      /\ cfg'["verify"] = cfg["verify"] /\ todo'["verify"] = todo["verify"]
      /\ skip'["verify"] = skip["verify"]
  <2>1. CASE BackendAwaited \/ ReconcileJudge
    <3>1. /\ todo' = todo \/ todo' = [todo EXCEPT !["main"] = todo'["main"]]
          /\ skip' = skip \/ skip' = [skip EXCEPT !["main"] = skip'["main"]]
      BY <2>1 DEF BackendAwaited, ReconcileJudge, StartApply, Burst, TypeOK, ThreadTypeOK
    <3>2. UNCHANGED <<dev, confirmed, mismatched, stop, moved, cfg>> /\ (ready => ready')
      <4>1. CASE BackendAwaited
        BY <4>1 DEF BackendAwaited, deskVars, history
      <4>2. CASE ReconcileJudge
        BY <4>2 DEF ReconcileJudge, deskVars, history, signalVars
      <4>. QED
        BY <2>1, <4>1, <4>2
    <3>. QED
      BY <3>1, <3>2 DEF TypeOK, ThreadTypeOK
  <2>2. CASE FirstApplyOut \/ ReloadApplyOut \/ ChildWaited \/ PollReload \/ PollStop
    BY <2>2 DEF FirstApplyOut, ReloadApplyOut, ChildWaited, PollReload, PollStop, deskVars,
                history, signalVars
  <2>3. CASE Escalate \/ ReadConfig \/ ReconcileRefused \/ Exits
    BY <2>3 DEF Escalate, ReadConfig, ReconcileRefused, Exits, deskVars, history, signalVars,
                TypeOK, ThreadTypeOK
  <2>. QED
    BY <2>1, <2>2, <2>3 DEF MainStep
<1>2. Path("verify")
  <2>1. CASE FirstApplyOut \/ Exits
    <3>1. pc'["verify"] \in {"settling", "none", "done", "cut"}
      BY <2>1 DEF FirstApplyOut, Exits, TypeOK, ThreadTypeOK
    <3>. QED
      BY <1>1, <3>1 DEF Path, InApply, FirstApply, Observing, Concluding, HasRead, ChangesSeen
  <2>2. CASE pc'["verify"] = pc["verify"] /\ inbox' = inbox
    BY <1>1, <2>2, RestsOnPath DEF Rests, KeepsWindow, ChangesSeen
  <2>3. CASE BackendAwaited \/ ReloadApplyOut \/ ChildWaited \/ PollReload \/ PollStop
             \/ Escalate \/ ReadConfig \/ ReconcileRefused \/ ReconcileJudge
    BY <2>2, <2>3 DEF BackendAwaited, ReloadApplyOut, ChildWaited, PollReload, PollStop,
         Escalate, ReadConfig, ReconcileRefused, ReconcileJudge, StartApply, Burst, Goto,
         deskVars, TypeOK, ThreadTypeOK
  <2>. QED
    BY <2>1, <2>3 DEF MainStep
<1>. SUFFICES Path("main")
  BY <1>2
<1>. USE DEF TypeOK, ThreadTypeOK, Path, KeepsWindow, Observes, Concludes, Applies, Remixes,
             InApply, ChangesSeen, FirstApply, Observing, Concluding, HasRead
<1>3. CASE BackendAwaited
  BY <1>1, <1>3 DEF BackendAwaited, StartApply, Burst, Goto, ReadsAfterReady
<1>4. CASE ReconcileJudge
  <2>1. /\ pc["main"] = "judge" /\ cfg' = cfg /\ ready' = ready /\ UNCHANGED deskVars
        /\ \/ pc'["main"] = "stopcheck"
           \/ /\ pc'["main"] = "links" /\ ~ShouldStop("main") /\ skip'["main"] = Kept("main")
              /\ todo'["main"] = Without(LinksOf[cfg["main"]], Kept("main"))
    BY <1>4 DEF ReconcileJudge, StartApply, Burst, Goto, signalVars
  <2>. QED
    BY <1>1, <2>1 DEF KeepsReports, deskVars
<1>5. CASE FirstApplyOut \/ ReloadApplyOut \/ ChildWaited \/ PollReload \/ PollStop \/ Escalate
           \/ ReadConfig \/ ReconcileRefused \/ Exits
  <2>1. pc'["main"] \in {"supervise", "stopcheck", "join", "poll", "reload", "listen", "exit"}
    BY <1>5 DEF FirstApplyOut, ReloadApplyOut, ChildWaited, PollReload, PollStop, Escalate,
       ReadConfig, ReconcileRefused, Exits, Goto
  <2>. QED
    BY <1>1, <2>1
<1>. QED
  BY <1>3, <1>4, <1>5 DEF MainStep

LEMMA PathInNext ==
  ASSUME TypeOK, PortDiscipline, ReadsAfterReady, [Next]_vars, NEW t \in Thread
  PROVE  Path(t)
<1>. "verify" \in Thread /\ "main" \in Thread /\ "main" # "verify" /\ t \in {"main", "verify"}
  BY DEF Thread
<1>1. ASSUME NEW u \in Thread, Apply(u) \/ Window(u)
      PROVE  Path(t)
  <2>1. CASE t = u
    BY <1>1, <2>1, PathInApply, PathInWindow
  <2>2. CASE t # u
    BY <1>1, <2>2, RestsInApply, RestsInWindow, RestsOnPath
  <2>. QED
    BY <2>1, <2>2
<1>2. CASE MainStep
  BY <1>1, <1>2, PathInMain
<1>3. CASE VerifyStep
  BY <1>1, <1>3, PathInVerifier, RestsOnPath
<1>4. CASE Environment /\ UNCHANGED <<threadVars, verifyVars, signalVars>>
  <2>1. /\ pc'[t] = pc[t] /\ todo'[t] = todo[t] /\ skip'[t] = skip[t] /\ cfg'[t] = cfg[t]
        /\ KeepsWindow(t) /\ stop' = stop /\ ready' = ready
    BY <1>4 DEF threadVars, signalVars, KeepsWindow
  <2>2. Deliver \/ inbox' = inbox
    BY <1>4 DEF Environment, DeskStep, DumpNext, BackendBinds, BackendDies, GuiOpens, GuiCloses,
                Hand, HandTurns
  <2>3. ChangesSeen(t) /\ moved[t] \subseteq moved'[t]
    <3>1. CASE Hand
      BY <3>1 DEF Hand, MovedBy, ChangesSeen, Thread
    <3>2. CASE UNCHANGED <<dev, moved>>
      BY <3>2 DEF ChangesSeen
    <3>. QED
      BY <1>4, <3>1, <3>2 DEF Environment, DeskStep, DumpNext, Deliver, BackendBinds, BackendDies,
                              GuiOpens, GuiCloses, history
  <2>. QED
    BY <2>1, <2>2, <2>3, RestsOnPath DEF Rests
<1>5. CASE StopAsked \/ HupAsked \/ UNCHANGED vars
  BY <1>5, RestsOnPath DEF StopAsked, HupAsked, vars, deskVars, threadVars, signalVars, history,
                           Rests, KeepsWindow, ChangesSeen
<1>. QED
  BY <1>2, <1>3, <1>4, <1>5 DEF Next

----------------------------------------------------------------------------
(* Before READY.                                                           *)

LEMMA BeforeReadyInMain ==
  ASSUME Prompt, TypeOK, ReadsAfterReady, MainStep
  PROVE  /\ pc'["main"] # "boot" /\ child # "starting"
         /\ ~ready' => /\ pc'["main"] \in {"supervise", "join", "exit"} \union FirstApply
                       /\ pc'["main"] = "supervise" => child' = "dead"
                       /\ dump' = dump \/ dump' = <<>>
<1>. "main" \in Thread
  BY DEF Thread
<1>1. ready \in BOOLEAN /\ ready' \in BOOLEAN
  BY TypeStep DEF TypeOK, SignalTypeOK, Next
<1>. USE DEF TypeOK, ThreadTypeOK, ReadsAfterReady, FirstApply
<1>2. CASE SendNext("main")
  BY <1>1, <1>2 DEF SendNext, Writing, PutRegister, signalVars
<1>3. CASE ReachBarrier("main") \/ HearEcho("main")
  BY <1>1, <1>3 DEF ReachBarrier, HearEcho, MixBurst, Burst, Goto, Bind, signalVars
<1>4. CASE EchoTimeout("main") \/ Settled("main")
  BY <1>1, <1>4 DEF EchoTimeout, Settled, MixBurst, Burst, Goto, deskVars, signalVars
<1>5. CASE Window("main")
  <2>1. pc["main"] \in {"listen", "refresh", "top", "recv"} /\ ready' = ready
    BY <1>5 DEF Window, Listen, RequestDump, AwaitReport, NothingHeard, HearReport, WindowStopped,
                WindowComplete, WindowDeadline, CloseWindow, signalVars
  <2>2. pc'["main"] \in {"refresh", "top", "recv", "judge"}
    BY <1>5 DEF Window, Listen, RequestDump, AwaitReport, NothingHeard, HearReport, WindowStopped,
                WindowComplete, WindowDeadline, CloseWindow, Goto, Bind
  <2>. QED
    BY <1>1, <2>1, <2>2
<1>6. CASE BackendAwaited
  BY <1>1, <1>6 DEF BackendAwaited, StartApply, Burst, Goto, deskVars, DeskTypeOK
<1>7. CASE FirstApplyOut \/ ReloadApplyOut \/ ChildWaited
  BY <1>1, <1>7 DEF FirstApplyOut, ReloadApplyOut, ChildWaited, Goto, deskVars, signalVars
<1>8. CASE PollReload \/ PollStop \/ Escalate
  BY <1>1, <1>8 DEF PollReload, PollStop, Escalate, AtStopCheck, Goto, signalVars
<1>9. CASE ReadConfig \/ ReconcileRefused \/ ReconcileJudge
  BY <1>1, <1>9 DEF ReadConfig, ReconcileRefused, ReconcileJudge, StartApply, Burst, Goto, signalVars
<1>10. CASE Exits
  BY <1>1, <1>10 DEF Exits, signalVars
<1>. QED
  BY <1>2, <1>3, <1>4, <1>5, <1>6, <1>7, <1>8, <1>9, <1>10 DEF MainStep, Apply

LEMMA VerifierHasStarted ==
  ASSUME VerifyStep
  PROVE  pc["verify"] # "none" /\ ready' = ready /\ child' = child
<1>1. CASE Apply("verify")
  BY <1>1 DEF Apply, SendNext, ReachBarrier, HearEcho, EchoTimeout, Settled, Writing, PutRegister,
              deskVars, signalVars
<1>2. CASE Window("verify")
  BY <1>2 DEF Window, Listen, RequestDump, AwaitReport, NothingHeard, HearReport, WindowStopped,
              WindowComplete, WindowDeadline, CloseWindow, PutRefresh, deskVars, signalVars
<1>. QED
  BY <1>1, <1>2 DEF VerifyStep, SettlingEnds, VerifyBlind, BlindDelayEnds, VerifyJudge, VerifyReport,
                    VerifyBurstOut, PutRefresh, deskVars, signalVars

LEMMA ReadsAfterReadyStep ==
  ASSUME KeepsWhatItReads, TypeOK, StartInv, PortDiscipline, ReadsAfterReady, [Next]_vars
  PROVE  ReadsAfterReady'
<1>. "verify" \in Thread /\ "main" \in Thread
  BY DEF Thread
<1>0. ready \in BOOLEAN /\ ready' \in BOOLEAN /\ Prompt /\ DeskChange
  BY TypeStep, DeskInNext DEF TypeOK, SignalTypeOK, KeepsWhatItReads
<1>1. /\ child' = "starting" => pc'["main"] = "boot"
      /\ pc'["main"] = "boot" => ~ready'
      /\ ~ready' => /\ pc'["main"] \in {"boot", "supervise", "join", "exit"} \union FirstApply
                    /\ pc'["main"] = "supervise" => child' = "dead"
                    /\ dump' = <<>>
  <2>1. CASE MainStep
    <3>1. child' # "starting"
      BY <1>0, <2>1, BeforeReadyInMain DEF DeskChange, ControlStep, KeepsReports, RefreshStep,
         PutRefresh, Sends, PutRegister, DumpNext, Deliver, BackendBinds, LosesBackend, HandTurns
    <3>2. ~ready' => ~ready
      BY <1>0, PathInNext DEF Path
    <3>. QED
      BY <1>0, <2>1, <3>1, <3>2, BeforeReadyInMain DEF ReadsAfterReady
  <2>2. CASE VerifyStep
    <3>1. ready /\ ready' /\ child' = child
      BY <1>0, <2>2, VerifierHasStarted DEF StartInv, VerifierAfterReady
    <3>2. pc'["main"] = pc["main"]
      <4>1. CASE Apply("verify")
        BY <4>1, RestsInApply DEF Rests, Thread
      <4>2. CASE Window("verify")
        BY <4>2, RestsInWindow DEF Rests, Thread
      <4>. QED
        BY <2>2, <4>1, <4>2, PathInVerifier DEF Rests
    <3>. QED
      BY <3>1, <3>2 DEF ReadsAfterReady
  <2>3. CASE Environment /\ UNCHANGED <<threadVars, verifyVars, signalVars>>
    <3>1. pc' = pc /\ ready' = ready
      BY <2>3 DEF threadVars, signalVars
    <3>2. /\ child' \in {child, "dead"} \/ (child = "starting" /\ child' = "up")
          /\ dump = <<>> => dump' = <<>>
      BY <2>3 DEF Environment, DeskStep, DumpNext, Deliver, BackendBinds, BackendDies, GuiOpens,
                  GuiCloses, Hand, HandTurns
    <3>. QED
      BY <3>1, <3>2 DEF ReadsAfterReady
  <2>4. CASE StopAsked \/ HupAsked \/ UNCHANGED vars
    <3>1. UNCHANGED <<pc, ready, child, dump>>
      BY <2>4 DEF StopAsked, HupAsked, vars, deskVars, threadVars, signalVars
    <3>. QED
      BY <3>1 DEF ReadsAfterReady
  <2>. QED
    BY <2>1, <2>2, <2>3, <2>4 DEF Next
<1>2. ASSUME ~ready', NEW m \in UnderWay'
      PROVE  m.reg \notin Remembered
  <2>1. ~ready
    BY <1>0, <1>2, PathInNext DEF Path
  <2>2. dump = <<>> /\ (m \in UnderWay => m.reg \notin Remembered)
    BY <2>1 DEF ReadsAfterReady
  <2>3. Reason(m) => m.reg \in LinkRegs
    BY <2>2 DEF Reason, ToSet
  <2>. QED
    BY <1>0, <1>2, <2>2, <2>3, ReportsAreTrue, RememberedFacts
<1>. QED
  BY <1>1, <1>2 DEF ReadsAfterReady

----------------------------------------------------------------------------
(* Every step keeps what a thread knows of the remembered registers.       *)

\* While a thread knows anything, a backend that is up was up before.
LEMMA StillUp ==
  ASSUME TypeOK, StartInv, ReadsAfterReady, DeskChange, NEW t \in Thread, HasRead(t), child' = "up"
  PROVE  child = "up"
<1>1. CASE t = "main"
  BY <1>1, WasUp DEF HasRead, InApply, ReadsAfterReady, Observing, Concluding, FirstApply
<1>2. CASE t = "verify"
  <2>1. pc["verify"] # "none"
    BY <1>2 DEF HasRead, InApply, Observing, Concluding, FirstApply
  <2>. QED
    BY <2>1, WasUp DEF StartInv, VerifierAfterReady, ReadsAfterReady
<1>. QED
  BY <1>1, <1>2 DEF Thread

LEMMA OnlyTheMixStep ==
  ASSUME TypeOK, NEW t \in Thread, Path(t), OnlyTheMix(t)
  PROVE  OnlyTheMix(t)'
<1>. SUFFICES ASSUME pc'[t] \in {"remix", "rewrite", "blindmix"}, NEW i \in 1 .. Len(todo'[t])
              PROVE  todo'[t][i] \in ToSet(RemixOf[cfg[t]])
  BY DEF OnlyTheMix, Path, HasRead, Observing, Concluding
<1>0. todo[t] \in Seq(Sendable) /\ RemixOf[cfg[t]] \in Seq(Sendable)
  BY BurstsTyped DEF TypeOK, ThreadTypeOK
<1>1. CASE pc'[t] = pc[t] /\ todo'[t] = todo[t]
  BY <1>1 DEF OnlyTheMix
<1>2. CASE pc'[t] = pc[t] /\ todo[t] # <<>> /\ todo'[t] = Tail(todo[t])
  <2>1. i + 1 \in 1 .. Len(todo[t]) /\ todo'[t][i] = todo[t][i + 1]
    BY <1>0, <1>2
  <2>. QED
    BY <1>2, <2>1 DEF OnlyTheMix
<1>3. CASE todo'[t] = RemixOf[cfg[t]]
  BY <1>0, <1>3 DEF ToSet
<1>. QED
  BY <1>1, <1>2, <1>3 DEF Path, Remixes, Sends

\* What a thread has confirmed comes from a report it took.
LEMMA ConfirmedFromReport ==
  ASSUME TypeOK, NEW t \in Thread, Path(t), HearsAll(t), HasRead(t)',
         NEW r \in confirmed'[t]
  PROVE  /\ HasRead(t) /\ cfg'[t] = cfg[t]
         /\ \/ r \in confirmed[t]
            \/ /\ KeepsReports
               /\ \E m \in UnderWay : m \in Report /\ m.reg = r /\ m \in WantedOf[cfg[t]]
<1>1. /\ pc'[t] # "refresh" /\ cfg'[t] = cfg[t]
      /\ Observes(t) \/ Concludes(t) \/ Applies(t)
  BY DEF Path, HearsAll, HasRead, KeepsWindow, InApply, FirstApply
<1>2. HasRead(t)
  BY <1>1 DEF Observes, Concludes, Applies, HasRead, Observing
<1>3. CASE KeepsWindow(t)
  BY <1>1, <1>2, <1>3 DEF KeepsWindow
<1>4. CASE inbox # <<>> /\ KeepsReports /\ Absorb(t, Head(inbox))
  <2>. DEFINE m == Head(inbox)
  <2>1. m \in Report /\ m \in UnderWay
    BY <1>4 DEF TypeOK, DeskTypeOK, UnderWay, ToSet
  <2>2. confirmed'[t] = confirmed[t] \/ (m \in WantedOf[cfg[t]] /\ confirmed'[t] = confirmed[t] \union {m.reg})
    BY <1>4 DEF Absorb, TypeOK, ThreadTypeOK
  <2>. QED
    BY <1>1, <1>2, <1>4, <2>1, <2>2
<1>. QED
  BY <1>1, <1>3, <1>4 DEF Observes, Concludes, Applies
LEMMA TellsTrueStep ==
  ASSUME KeepsWhatItReads, TypeOK, ReadsAfterReady, DeskChange, NEW t \in Thread, Path(t),
         OnlyTheMix(t), TellsTrue(t), HearsAll(t), WritesConfirmed(t)
  PROVE  TellsTrue(t)'
<1>. SUFFICES ASSUME NEW r \in Remembered, r \notin moved'[t]
              PROVE  /\ \A m \in UnderWay' : m.reg = r => m.args = dev'[r]
                     /\ HasRead(t)' /\ r \in confirmed'[t] =>
                          Message(r, dev'[r]) \in WantedOf[cfg'[t]]
  BY DEF TellsTrue
<1>1. CASE moved[t] \subseteq moved'[t]
  <2>1. r \notin moved[t] /\ r \in Reg /\ RegisterEverReported(r)
    BY <1>1, RememberedFacts
  <2>2. CASE dev'[r] = dev[r]
    <3>1. ASSUME NEW m \in UnderWay', m.reg = r
          PROVE  m.args = dev'[r]
      BY <2>1, <2>2, <3>1, ReportsAreTrue DEF TellsTrue
    <3>2. ASSUME HasRead(t)', r \in confirmed'[t]
          PROVE  Message(r, dev'[r]) \in WantedOf[cfg'[t]]
      <4>1. /\ HasRead(t) /\ cfg'[t] = cfg[t]
            /\ \/ r \in confirmed[t]
               \/ \E m \in UnderWay : m \in Report /\ m.reg = r /\ m \in WantedOf[cfg[t]]
        BY <3>2, ConfirmedFromReport
      <4>2. CASE r \in confirmed[t]
        BY <2>1, <2>2, <4>1, <4>2 DEF TellsTrue
      <4>3. ASSUME NEW m \in UnderWay, m \in Report, m.reg = r, m \in WantedOf[cfg[t]]
            PROVE  Message(r, dev'[r]) \in WantedOf[cfg'[t]]
        <5>1. m.args = dev[r]
          BY <2>1, <4>3 DEF TellsTrue
        <5>2. m = Message(r, dev[r])
          BY <4>3, <5>1 DEF Report, Message
        <5>. QED
          BY <2>2, <4>1, <4>3, <5>2
      <4>. QED
        BY <4>1, <4>2, <4>3
    <3>. QED
      BY <3>1, <3>2
  <2>3. CASE dev'[r] # dev[r]
    <3>1. Sends(t) /\ t = "main" /\ ~ready
      BY <1>1, <2>1, <2>3, WriterHasRead DEF Path, ChangesSeen
    <3>2. ASSUME NEW m \in UnderWay', m.reg = r
          PROVE  m.args = dev'[r]
      BY <3>1, <3>2, ReportsAreTrue DEF ReadsAfterReady
    <3>3. ~HasRead(t)
      BY <3>1 DEF ReadsAfterReady, HasRead, InApply, FirstApply, Observing, Concluding
    <3>. QED
      BY <3>2, <3>3, ConfirmedFromReport
  <2>. QED
    BY <2>2, <2>3
<1>2. CASE pc[t] = "refresh" /\ KeepsWindow(t) /\ wire' = <<>> /\ inbox' = <<>>
  <2>1. UnderWay' = {} /\ confirmed'[t] = {}
    BY <1>2 DEF UnderWay, ToSet, HearsAll, KeepsWindow
  <2>. QED
    BY <2>1
<1>. QED
  BY <1>1, <1>2 DEF Path

LEMMA HearsAllStep ==
  ASSUME KeepsWhatItReads, TypeOK, StartInv, PortDiscipline, ReadsAfterReady, DeskChange,
         NEW t \in Thread, Path(t), HearsAll(t)
  PROVE  HearsAll(t)'
<1>0. /\ cfg[t] \in Configs /\ wire \in Seq(Report) /\ inbox \in Seq(Report)
      /\ confirmed \in [Thread -> SUBSET Reg] /\ mismatched \in [Thread -> SUBSET Reg]
  BY DEF TypeOK, DeskTypeOK, ThreadTypeOK
<1>1. pc'[t] = "refresh" => confirmed'[t] = {}
  BY DEF Path, HearsAll, KeepsWindow
<1>2. ASSUME NEW r \in SaidOf(cfg[t])
      PROVE  /\ r \in Registers(t) /\ r \in ToSet(DumpOrder) \ Late
             /\ RegisterEverReported(r) /\ r \in Reg
  <2>1. PICK m \in Plan(cfg[t]) : m.reg = r /\ r \in Remembered
    BY DEF SaidOf
  <2>. QED
    BY <1>0, <2>1, SaidFacts, RememberedFacts DEF Registers
<1>3. ASSUME NEW r \in SaidOf(cfg'[t]), child' = "up", pc'[t] \in Observing
      PROVE  \/ r \in confirmed'[t] \union mismatched'[t] \/ r \in ToSet(dump')
             \/ \E m \in UnderWay' : m.reg = r
  <2>0. cfg'[t] = cfg[t] /\ r \in SaidOf(cfg[t]) /\ Observes(t)
    BY <1>3 DEF Path, HasRead
  <2>1. CASE pc[t] = "refresh" /\ PutRefresh
    <3>1. child = "up" /\ MaxDrops = 0
      BY <1>3, <2>1 DEF PutRefresh, KeepsWhatItReads
    <3>2. dump' = DumpOrder
      BY <2>1, <3>1, NothingLost
    <3>. QED
      BY <1>2, <2>0, <3>2
  <2>2. CASE pc[t] \in Observing /\ KeepsWindow(t) /\ (Deliver \/ inbox' = inbox)
    <3>1. child = "up" /\ MaxDrops = 0 /\ port = t
      BY <1>3, <2>2, StillUp DEF HasRead, KeepsWhatItReads, PortDiscipline, Observing, Listening
    <3>2. CASE r \in confirmed[t] \union mismatched[t]
      BY <2>2, <3>2 DEF KeepsWindow
    <3>3. CASE r \in ToSet(dump)
      <4>1. r \in ToSet(dump') \/ Message(r, dev[r]) \in ToSet(wire')
        BY <1>2, <1>3, <2>0, <3>3, DumpArrives
      <4>. QED
        BY <4>1 DEF UnderWay, Message
    <3>4. ASSUME NEW m \in UnderWay, m.reg = r
          PROVE  m \in UnderWay'
      BY <1>3, <2>2, <3>1, ReportsArrive
    <3>. QED
      BY <2>0, <2>2, <3>1, <3>2, <3>3, <3>4 DEF HearsAll
  <2>3. CASE /\ pc[t] = "recv" /\ inbox # <<>> /\ inbox' = Tail(inbox) /\ KeepsReports
             /\ Absorb(t, Head(inbox))
    <3>1. child = "up" /\ dump' = dump /\ wire' = wire
      BY <1>3, <2>3 DEF KeepsReports
    <3>2. CASE r \in confirmed[t] \union mismatched[t]
      BY <1>0, <2>3, <3>2 DEF Absorb
    <3>3. ASSUME NEW m \in UnderWay, m.reg = r
          PROVE  m \in UnderWay' \/ r \in confirmed'[t] \union mismatched'[t]
      <4>1. m \in ToSet(wire) \/ m = Head(inbox) \/ m \in ToSet(Tail(inbox))
        BY <1>0, <2>3, HeadOrTail DEF UnderWay
      <4>2. CASE m = Head(inbox)
        BY <1>0, <1>2, <2>0, <2>3, <3>3, <4>2 DEF Absorb
      <4>. QED
        BY <2>3, <3>1, <4>1, <4>2 DEF UnderWay
    <3>. QED
      BY <2>0, <2>3, <3>1, <3>2, <3>3 DEF HearsAll, Observing
  <2>. QED
    BY <2>0, <2>1, <2>2, <2>3 DEF Observes
<1>4. ASSUME NEW r \in SaidOf(cfg'[t]), child' = "up", pc'[t] \in Concluding, ~stop'
      PROVE  r \in confirmed'[t] \union mismatched'[t]
  <2>0. cfg'[t] = cfg[t] /\ r \in SaidOf(cfg[t]) /\ Concludes(t) /\ ~stop
    BY <1>4 DEF Path, HasRead
  <2>1. CASE pc[t] \in Concluding
    <3>1. child = "up"
      BY <1>4, <2>1, StillUp DEF HasRead
    <3>. QED
      BY <2>0, <2>1, <3>1 DEF HearsAll, Concludes, KeepsWindow
  <2>2. CASE pc[t] = "top" /\ WindowIsOver(t) /\ KeepsReports
    <3>1. child = "up" /\ ~ShouldStop(t)
      BY <1>4, <2>0, <2>2 DEF KeepsReports, ShouldStop
    <3>2. CASE DeadlineFor(Registers(t))
      <4>1. r \notin ToSet(dump) /\ \A m \in UnderWay : m.reg # r
        BY <1>0, <1>2, <2>0, <3>2, ConcatRange DEF DeadlineFor, UnderWay
      <4>. QED
        BY <2>0, <2>2, <3>1, <4>1 DEF HearsAll, Observing, Concludes, KeepsWindow
    <3>3. CASE WindowMayClose(Registers(t), confirmed[t], mismatched[t])
      <4>1. r \in confirmed[t]
        BY <1>2, <2>0, <3>3 DEF WindowMayClose
      <4>. QED
        BY <2>0, <4>1 DEF Concludes, KeepsWindow
    <3>. QED
      BY <2>2, <3>1, <3>2, <3>3 DEF WindowIsOver
  <2>. QED
    BY <2>0, <2>1, <2>2 DEF Concludes
<1>. QED
  BY <1>1, <1>3, <1>4 DEF HearsAll

LEMMA WritesConfirmedStep ==
  ASSUME KeepsWhatItReads, TypeOK, StartInv, ReadsAfterReady, DeskChange,
         NEW t \in Thread, Path(t), HearsAll(t), WritesConfirmed(t)
  PROVE  WritesConfirmed(t)'
<1>. SUFFICES ASSUME InApply(t)', child' = "up"
              PROVE  /\ \A i \in 1 .. Len(todo'[t]) :
                          todo'[t][i] \in Plan(cfg[t]) /\ todo'[t][i].reg \notin skip'[t]
                     /\ SaidOf(cfg[t]) \subseteq skip'[t] \union confirmed'[t]
  BY DEF WritesConfirmed, Path, HasRead
<1>0. /\ cfg[t] \in Configs /\ todo[t] \in Seq(Sendable) /\ KeepsWindow(t) /\ Applies(t)
      /\ skip[t] \in SUBSET Reg /\ Kept(t) \in SUBSET Reg
  BY BurstsTyped DEF TypeOK, ThreadTypeOK, Path, Applies
<1>1. ASSUME NEW s \in SUBSET Reg, NEW msgs \in {LinksOf[cfg[t]], MixesOf[cfg[t]]},
             NEW i \in 1 .. Len(Without(msgs, s))
      PROVE  Without(msgs, s)[i] \in Plan(cfg[t]) /\ Without(msgs, s)[i].reg \notin s
  <2>1. Without(msgs, s) \in Seq(Sendable)
    BY <1>0, PlansAreTyped
  <2>2. Without(msgs, s)[i] \in ToSet(Without(msgs, s))
    BY <2>1 DEF ToSet
  <2>0. cfg[t] \in Configs
    BY <1>0
  <2>3. \A burst \in {LinksOf[cfg[t]], MixesOf[cfg[t]]} :
          ToSet(Without(burst, s)) = {m \in ToSet(burst) : m.reg \notin s}
    BY <2>0, LeftAloneIsDropped
  <2>4. ToSet(msgs) \subseteq Plan(cfg[t])
    BY DEF Plan
  <2>. QED
    BY <2>2, <2>3, <2>4
<1>2. CASE InApply(t) /\ skip'[t] = skip[t]
  <2>1. child = "up"
    BY <1>2, StillUp DEF HasRead
  <2>2. SaidOf(cfg[t]) \subseteq skip'[t] \union confirmed'[t]
    BY <1>0, <1>2, <2>1 DEF WritesConfirmed, KeepsWindow
  <2>3. CASE todo'[t] = todo[t]
    BY <1>2, <2>1, <2>2, <2>3 DEF WritesConfirmed
  <2>4. CASE todo[t] # <<>> /\ todo'[t] = Tail(todo[t])
    <3>1. ASSUME NEW i \in 1 .. Len(todo'[t])
          PROVE  i + 1 \in 1 .. Len(todo[t]) /\ todo'[t][i] = todo[t][i + 1]
      BY <1>0, <2>4
    <3>. QED
      BY <1>2, <2>1, <2>2, <3>1 DEF WritesConfirmed
  <2>5. CASE todo'[t] = Without(MixesOf[cfg[t]], skip[t])
    BY <1>0, <1>1, <1>2, <2>2, <2>5
  <2>6. CASE pc[t] \in Concluding
    BY <1>2, <2>6 DEF InApply, FirstApply, Concluding
  <2>. QED
    BY <1>0, <2>3, <2>4, <2>5, <2>6 DEF Applies, Sends
<1>3. CASE /\ pc[t] \in Concluding /\ ~ShouldStop(t) /\ KeepsReports
           /\ skip'[t] = Kept(t) /\ todo'[t] = Without(LinksOf[cfg[t]], Kept(t))
  <2>1. child = "up" /\ ~stop
    BY <1>3 DEF KeepsReports, ShouldStop
  <2>2. ASSUME NEW r \in SaidOf(cfg[t])
        PROVE  r \in Kept(t) \union confirmed[t]
    <3>1. r \in confirmed[t] \union mismatched[t]
      BY <1>3, <2>1 DEF HearsAll
    <3>2. PolicyFor(cfg[t], r) # PIN
      BY <1>0, RememberedFacts DEF SaidOf, REMEMBER, PIN
    <3>. QED
      BY <3>1, <3>2 DEF Kept, KeptByTheDevice
  <2>. QED
    BY <1>0, <1>1, <1>3, <2>2 DEF KeepsWindow
<1>. QED
  BY <1>0, <1>2, <1>3 DEF Applies

LEMMA RememberInit == Init => RememberInv
<1>. SUFFICES ASSUME Init PROVE RememberInv
  OBVIOUS
<1>1. UnderWay = {} /\ dump = <<>>
  BY DEF Init, DeskInit, UnderWay, ToSet
<1>2. ASSUME NEW t \in Thread
      PROVE  pc[t] \in {"boot", "none"}
  BY <1>2 DEF Init
<1>3. ReadsAfterReady
  BY <1>1 DEF ReadsAfterReady, Init, DeskInit, Thread
<1>4. ASSUME NEW t \in Thread
      PROVE  OnlyTheMix(t) /\ TellsTrue(t) /\ HearsAll(t) /\ WritesConfirmed(t)
  BY <1>1, <1>2 DEF OnlyTheMix, TellsTrue, HearsAll, WritesConfirmed, HasRead, InApply, FirstApply,
                    Observing, Concluding
<1>. QED
  BY <1>3, <1>4 DEF RememberInv

LEMMA RememberStep ==
  ASSUME KeepsWhatItReads, TypeOK, StartInv, PortDiscipline, RememberInv, [Next]_vars
  PROVE  RememberInv'
<1>1. DeskChange /\ ReadsAfterReady /\ \A t \in Thread : Path(t)
  BY DeskInNext, PathInNext DEF RememberInv
<1>2. ReadsAfterReady'
  BY <1>1, ReadsAfterReadyStep
<1>3. ASSUME NEW t \in Thread
      PROVE  (OnlyTheMix(t) /\ TellsTrue(t) /\ HearsAll(t) /\ WritesConfirmed(t))'
  <2>1. OnlyTheMix(t) /\ TellsTrue(t) /\ HearsAll(t) /\ WritesConfirmed(t)
    BY DEF RememberInv
  <2>2. OnlyTheMix(t)'
    BY <1>1, <2>1, OnlyTheMixStep
  <2>3. TellsTrue(t)'
    BY <1>1, <2>1, TellsTrueStep
  <2>4. HearsAll(t)'
    BY <1>1, <2>1, HearsAllStep
  <2>5. WritesConfirmed(t)'
    BY <1>1, <2>1, WritesConfirmedStep
  <2>. QED
    BY <2>2, <2>3, <2>4, <2>5
<1>. QED
  BY <1>2, <1>3 DEF RememberInv

\* The device keeps what it may keep: a repair of the verifier or a reconcile
\* changes a remembered register only if it has moved since the thread's own
\* read-back began, whatever the two threads, the GUI, a hand at the device,
\* the signals and a dying backend do between the report and the write.
THEOREM RememberedKept == KeepsWhatItReads => (Spec => RememberedSurvivesReapply)
<1>. DEFINE Inv == TypeOK /\ StartInv /\ PortDiscipline /\ RememberInv
            Survives == \A t \in Thread, r \in Reg :
                       /\ pc[t] \in Writing /\ pc'[t] = pc[t] /\ todo'[t] # todo[t]
                       /\ t = "verify" \/ ready
                       /\ PolicyFor(cfg[t], r) = REMEMBER
                       /\ dev'[r] # dev[r]
                       => r \in moved[t]
<1>. SUFFICES ASSUME KeepsWhatItReads PROVE Spec => RememberedSurvivesReapply
  OBVIOUS
<1>1. Init => Inv
  BY TypeInit, StartInit, PortInit, RememberInit
<1>2. Inv /\ [Next]_vars => Inv'
  BY TypeStep, StartStep, PortStep, RememberStep
<1>3. ASSUME Inv, [Next]_vars
      PROVE  Survives
  <2>. SUFFICES ASSUME NEW t \in Thread, NEW r \in Reg,
                       pc[t] \in Writing, pc'[t] = pc[t], todo'[t] # todo[t],
                       t = "verify" \/ ready, PolicyFor(cfg[t], r) = REMEMBER, dev'[r] # dev[r]
                PROVE  r \in moved[t]
    OBVIOUS
  <2>1. Path(t) /\ r \in Remembered
    BY <1>3, PathInNext DEF RememberInv, Remembered, TypeOK, ThreadTypeOK
  <2>2. Sends(t)
    <3>1. CASE pc[t] \in {"remix", "rewrite", "blindmix"}
      BY <2>1, <3>1 DEF Path, Remixes
    <3>2. CASE pc[t] \in {"links", "mix"}
      <4>1. InApply(t)'
        BY <1>3, <2>1, <3>2 DEF InApply, FirstApply, Path
      <4>. QED
        BY <2>1, <3>2, <4>1 DEF Path, Applies, Concluding
    <3>. QED
      BY <3>1, <3>2 DEF Writing
  <2>. QED
    BY <1>3, <2>1, <2>2, WriterHasRead DEF RememberInv, Thread
<1>4. Inv /\ [Next]_vars => [Survives]_vars
  BY <1>3
<1>. QED
  BY <1>1, <1>2, <1>4, PTL DEF Spec, RememberedSurvivesReapply

=============================================================================
