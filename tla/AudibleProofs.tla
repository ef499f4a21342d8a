---------------------------- MODULE AudibleProofs ----------------------------
(***************************************************************************)
(* What ends up at the device.  First the theorem about "routing           *)
(* verified": both sides of every pair carry their signal, although the    *)
(* mix is never reported; it is about a calm desk (Calm) and a session     *)
(* without a reload.  Then the theorem about a reload that no verifier     *)
(* disturbs (CalmReloads): the device is routed as the file said.          *)
(* Signals, crashes, the mixer GUI and the device may still do what they   *)
(* do.                                                                     *)
(***************************************************************************)
EXTENDS SessionProofs

----------------------------------------------------------------------------
(* One route at the device.                                                *)

Src(route)   == route.source[1]
Level(route) == MixMessages(route)[1].args[1]
IsPair(route) == Len(route.output) = 2

Fed(route, out) == dev[Cell(out, route.kind, Src(route))] = <<Level(route)>>

\* The message that feeds an output of a route.
Feeder(route, out) ==
  IF IsPair(route) /\ ~route.stereo
  THEN Message(Cell(out, route.kind, Src(route)),
               <<Level(route), IF out = route.output[1] THEN -100 ELSE 100>>)
  ELSE Message(Cell(route.output[1], route.kind, Src(route)), <<Level(route), 0>>)

Links(c) == UNION {ToSet(LinkMessages(route)) : route \in ToSet(c.routes)}

----------------------------------------------------------------------------
(* The inductive invariant of a session that started with c, as long as no *)
(* SIGHUP has come.                                                        *)

\* The main thread applies once, before READY, and never again.
OnlyOnce(c) ==
  /\ cfg = [t \in Thread |-> c] /\ ~reload /\ skip["main"] = {}
  /\ pc["main"] \in {"boot"} \union FirstApply
                      \union {"supervise", "poll", "stopcheck", "join", "exit"}
  /\ pc["main"] \in {"boot"} \union FirstApply => ~ready
  /\ child = "starting" => pc["main"] = "boot"

\* The verifier writes the mix again exactly when the last link has been
\* reported, so that its window never ends without.
Progress(c) ==
  /\ pendingLinks \subseteq AwaitedOf[c]
  /\ pc["verify"] # "none" => /\ reapplied => pendingLinks = {}
                              /\ pendingLinks = {} => reapplied \/ ShouldStop("verify")
  /\ pc["verify"] = "judge" => reapplied \/ ShouldStop("verify")
  /\ pc["verify"] \in {"report", "remix"} => reapplied
  /\ pc["verify"] # "rewrite"
  /\ verdict = "verified" => pc["verify"] \in {"done", "cut"} /\ reapplied

\* A link the window waits for is still to come, and has not been confirmed.
InWindow == pc["verify"] \in {"top", "recv", "remix"}

StillToCome(c) ==
  /\ InWindow /\ child = "up" =>
       \A m \in pendingLinks :
         m.reg \in ToSet(dump) \/ m \in ToSet(wire) \/ m \in ToSet(inbox)
  /\ InWindow \/ pc["verify"] = "refresh" =>
       \A m \in pendingLinks : m.reg \notin confirmed["verify"]

\* The device is as it was left: the backend lives, or has lived until the
\* verifier had nothing more to write.
Trusted == child = "up" \/ pc["verify"] = "report" \/ verdict = "verified"

LinksSet(c) ==
  Trusted /\ (pc["main"] \in FirstApply \/ pc["verify"] # "none") =>
    \A m \in Links(c) :
      dev[m.reg] = m.args \/ (pc["main"] = "links" /\ m \in ToSet(todo["main"]))

SinglesFed(c) ==
  Trusted /\ (pc["main"] = "mix" \/ pc["verify"] # "none") =>
    \A route \in ToSet(c.routes) : ~IsPair(route) =>
      \A out \in ToSet(route.output) :
        \/ Fed(route, out)
        \/ pc["main"] = "mix" /\ Feeder(route, out) \in ToSet(todo["main"])

PairsFed(c) ==
  Trusted /\ pc["verify"] # "none" /\ reapplied =>
    \A route \in ToSet(c.routes) : IsPair(route) =>
      \A out \in ToSet(route.output) :
        \/ Fed(route, out)
        \/ pc["verify"] = "remix" /\ Feeder(route, out) \in ToSet(todo["verify"])

AudibleInv(c) ==
  /\ LinkInv({c}) /\ OnlyOnce(c) /\ Progress(c) /\ StillToCome(c)
  /\ LinksSet(c) /\ SinglesFed(c) /\ PairsFed(c)

Audible == hups = 0 => \E c \in Startups : AudibleInv(c)

----------------------------------------------------------------------------
(* What the messages of a route are.                                       *)

GoodRoute(route) ==
  /\ route.kind \in {"input", "playback"} /\ route.stereo \in BOOLEAN /\ route.level \in Int
  /\ route.output \in Seq(Nat \ {0}) /\ Len(route.output) \in 1 .. 2
  /\ IsPair(route) => /\ route.output[1] % 2 = 1
                      /\ route.output[2] = route.output[1] + 1
  /\ \A out \in ToSet(route.output) : Cell(out, route.kind, Src(route)) \in Reg

LEMMA VolumesAreNoCells ==
  ASSUME NEW route, GoodRoute(route)
  PROVE  VolumeMessages(route) \in Seq({Message(Volume(n), <<route.volume>>) : n \in Nat})
<1>1. CASE route.volume = NoVolume
  BY <1>1 DEF VolumeMessages
<1>2. CASE route.volume # NoVolume
  <2>1. /\ VolumeMessages(route) = [i \in DOMAIN route.output |->
                                      Message(Volume(route.output[i]), <<route.volume>>)]
        /\ DOMAIN route.output = 1 .. Len(route.output) /\ Len(route.output) \in Nat
    BY <1>2 DEF VolumeMessages, GoodRoute
  <2>2. \A i \in 1 .. Len(route.output) : route.output[i] \in Nat
    BY DEF GoodRoute
  <2>. QED
    BY <2>1, <2>2
<1>. QED
  BY <1>1, <1>2

LEMMA MixOfRoute ==
  ASSUME NEW route, GoodRoute(route)
  PROVE  /\ Level(route) = IF IsPair(route) /\ ~route.stereo
                           THEN Min0(route.level) + UnlinkedGainOffset ELSE route.level
         /\ \A m \in ToSet(MixMessages(route)) :
              \/ m.reg[1] # "mix" /\ m.reg[3] = "volume"
              \/ \E out \in ToSet(route.output) : m = Feeder(route, out)
         /\ \A out \in ToSet(route.output) :
              Feeder(route, out) \in ToSet(MixMessages(route))
<1>. DEFINE V == {Message(Volume(n), <<route.volume>>) : n \in Nat}
            vols == VolumeMessages(route)
            raised == Min0(route.level) + UnlinkedGainOffset
            At(i, l, p) == Message(Cell(route.output[i], route.kind, Src(route)), <<l, p>>)
            cells == IF IsPair(route) /\ ~route.stereo
                     THEN << At(1, raised, -100), At(2, raised, 100) >>
                     ELSE << At(1, route.level, 0) >>
<1>1. vols \in Seq(V)
  BY VolumesAreNoCells
<1>2. \A m \in ToSet(vols) : m.reg[1] # "mix" /\ m.reg[3] = "volume"
  <2>1. \A m \in V : m.reg[1] # "mix" /\ m.reg[3] = "volume"
    BY DEF Message, Volume
  <2>. QED
    BY <1>1, <2>1 DEF ToSet
<1>3. /\ route.output \in Seq(Nat \ {0}) /\ Len(route.output) \in {1, 2}
      /\ ToSet(route.output) = IF IsPair(route) THEN {route.output[1], route.output[2]}
                               ELSE {route.output[1]}
      /\ IsPair(route) => route.output[1] # route.output[2]
  BY DEF GoodRoute, IsPair, ToSet
<1>4. MixMessages(route) = cells \o vols
  BY DEF MixMessages, IsPair, Src
<1>5. /\ cells \in Seq(ToSet(cells)) /\ Len(cells) > 0
      /\ cells[1].args[1] = IF IsPair(route) /\ ~route.stereo THEN raised ELSE route.level
      /\ ToSet(cells) = IF IsPair(route) /\ ~route.stereo
                        THEN {At(1, raised, -100), At(2, raised, 100)}
                        ELSE {At(1, route.level, 0)}
  <2>1. CASE IsPair(route) /\ ~route.stereo
    <3>1. cells = << At(1, raised, -100), At(2, raised, 100) >>
      BY <2>1
    <3>2. At(1, raised, -100).args[1] = raised
      BY DEF Message
    <3>. HIDE DEF At, raised, cells
    <3>. QED
      BY <2>1, <3>1, <3>2 DEF ToSet
  <2>2. CASE ~(IsPair(route) /\ ~route.stereo)
    <3>1. cells = << At(1, route.level, 0) >>
      BY <2>2
    <3>2. At(1, route.level, 0).args[1] = route.level
      BY DEF Message
    <3>. HIDE DEF At, raised, cells
    <3>. QED
      BY <2>2, <3>1, <3>2 DEF ToSet
  <2>. QED
    BY <2>1, <2>2
<1>6. /\ MixMessages(route)[1] = cells[1]
      /\ ToSet(MixMessages(route)) = ToSet(cells) \union ToSet(vols)
  <2>. HIDE DEF cells, vols, V
  <2>1. cells \in Seq(ToSet(cells)) /\ Len(cells) > 0
    BY <1>5
  <2>2. /\ ToSet(cells \o vols) = ToSet(cells) \union ToSet(vols)
        /\ Len(cells) > 0 => (cells \o vols)[1] = cells[1]
    BY <1>1, <2>1, ConcatRange
  <2>. QED
    BY <1>4, <2>1, <2>2
<1>7. Level(route) = IF IsPair(route) /\ ~route.stereo THEN raised ELSE route.level
  BY <1>5, <1>6 DEF Level
<1>8. ToSet(cells) = {Feeder(route, out) : out \in ToSet(route.output)}
  <2>1. CASE IsPair(route) /\ ~route.stereo
    <3>1. /\ ToSet(cells) = {At(1, raised, -100), At(2, raised, 100)}
          /\ Level(route) = raised /\ ToSet(route.output) = {route.output[1], route.output[2]}
          /\ route.output[1] # route.output[2]
      BY <1>3, <1>5, <1>7, <2>1
    <3>2. /\ Feeder(route, route.output[1]) = At(1, raised, -100)
          /\ Feeder(route, route.output[2]) = At(2, raised, 100)
      BY <2>1, <3>1 DEF Feeder
    <3>. HIDE DEF cells, At, raised
    <3>. QED
      BY <3>1, <3>2
  <2>2. CASE ~(IsPair(route) /\ ~route.stereo)
    <3>1. ToSet(cells) = {At(1, route.level, 0)} /\ Level(route) = route.level
      BY <1>5, <1>7, <2>2
    <3>2. \A out \in ToSet(route.output) : Feeder(route, out) = At(1, route.level, 0)
      BY <2>2, <3>1 DEF Feeder
    <3>3. \E out \in ToSet(route.output) : TRUE
      BY <1>3
    <3>. HIDE DEF cells, At
    <3>. QED
      BY <3>1, <3>2, <3>3
  <2>. QED
    BY <2>1, <2>2
<1>. HIDE DEF cells, vols
<1>. QED
  BY <1>2, <1>6, <1>7, <1>8

----------------------------------------------------------------------------
(* What a mix message does to the cells of the routes.                     *)

\* oscmix has the link that the route was planned for.
LinkSeen(route) ==
  IsPair(route) =>
    view[Stereo("output", route.output[1])] = <<IF route.stereo THEN 1 ELSE 0>>

\* Two routes that feed no cell in common, whatever is linked.
Apart(route, other) ==
  other.kind = route.kind /\ Src(other) = Src(route)
    => OddOf(other.output[1]) # OddOf(route.output[1])

LEMMA OddFacts ==
  ASSUME NEW n \in Nat \ {0}
  PROVE  /\ OddOf(n) \in Nat \ {0}
         /\ n = OddOf(n) \/ n = OddOf(n) + 1
         /\ OddOf(OddOf(n)) = OddOf(n) /\ OddOf(OddOf(n) + 1) = OddOf(n)
  BY DEF OddOf

\* The outputs of a route lie in one pair.
LEMMA OutputsOf ==
  ASSUME NEW route, GoodRoute(route), NEW out \in ToSet(route.output)
  PROVE  /\ out \in Nat \ {0} /\ OddOf(out) = OddOf(route.output[1])
         /\ route.output[1] \in ToSet(route.output)
         /\ IsPair(route) => /\ OddOf(out) = route.output[1]
                             /\ out = route.output[1] \/ out = route.output[1] + 1
         /\ ~IsPair(route) => out = route.output[1]
<1>1. /\ Len(route.output) \in {1, 2} /\ route.output \in Seq(Nat \ {0})
      /\ \E i \in 1 .. Len(route.output) : out = route.output[i]
      /\ 1 \in 1 .. Len(route.output)
  BY DEF GoodRoute, ToSet
<1>2. CASE ~IsPair(route)
  BY <1>1, <1>2 DEF IsPair, ToSet
<1>3. CASE IsPair(route)
  <2>1. /\ route.output[1] % 2 = 1 /\ route.output[2] = route.output[1] + 1
        /\ route.output[1] \in Nat \ {0}
        /\ out = route.output[1] \/ out = route.output[2]
    BY <1>1, <1>3 DEF GoodRoute, IsPair
  <2>2. OddOf(route.output[1]) = route.output[1] /\ OddOf(route.output[2]) = route.output[1]
    BY <2>1 DEF OddOf
  <2>. QED
    BY <1>1, <1>3, <2>1, <2>2 DEF ToSet
<1>. QED
  BY <1>2, <1>3

\* The message that feeds an output is a cell of its route, at its level.
LEMMA FeederShape ==
  ASSUME NEW route, GoodRoute(route), NEW out \in ToSet(route.output)
  PROVE  LET w == Feeder(route, out) IN
         /\ \E at \in ToSet(route.output) : w.reg = Cell(at, route.kind, Src(route))
         /\ w.args[1] = Level(route)
         /\ ~(IsPair(route) /\ ~route.stereo) =>
              w.reg = Cell(route.output[1], route.kind, Src(route)) /\ w.args[2] = 0
         /\ IsPair(route) /\ ~route.stereo =>
              w.reg = Cell(out, route.kind, Src(route))
  BY OutputsOf DEF Feeder, Message

LEMMA OtherCells ==
  ASSUME DeskTypeOK, NEW w, NEW at, NEW kind, NEW src, w.reg = Cell(at, kind, src),
         NEW cell \in Reg, cell # w.reg,
         Linked(at) => /\ cell # Cell(OddOf(at), kind, src)
                       /\ cell # Cell(OddOf(at) + 1, kind, src)
  PROVE  Written(w)[cell] = dev[cell]
<1>1. w.reg[1] = "mix" /\ w.reg[2] = at /\ w.reg[3] = kind /\ w.reg[4] = src
  BY DEF Cell
<1>2. CASE ~Linked(at)
  BY <1>1, <1>2 DEF Written, DeskTypeOK
<1>3. CASE Linked(at)
  <2>. DEFINE one == Cell(OddOf(at), kind, src)
              two == Cell(OddOf(at) + 1, kind, src)
  <2>1. PICK a, b : Written(w) = [dev EXCEPT ![one] = a, ![two] = b]
    BY <1>1, <1>3 DEF Written
  <2>. HIDE DEF one, two
  <2>2. cell # one /\ cell # two
    BY <1>3 DEF one, two
  <2>. QED
    BY <2>1, <2>2 DEF DeskTypeOK
<1>. QED
  BY <1>2, <1>3

\* Another route does not touch the cells of this one.
LEMMA ApartKeeps ==
  ASSUME DeskTypeOK, NEW route, GoodRoute(route), NEW out \in ToSet(route.output),
         NEW other, GoodRoute(other), NEW to \in ToSet(other.output),
         Apart(route, other), Fed(route, out)
  PROVE  Written(Feeder(other, to))[Cell(out, route.kind, Src(route))] = <<Level(route)>>
<1>. DEFINE cell == Cell(out, route.kind, Src(route))
<1>1. PICK at \in ToSet(other.output) :
        Feeder(other, to).reg = Cell(at, other.kind, Src(other))
  BY FeederShape
<1>2. /\ at \in Nat \ {0} /\ OddOf(at) = OddOf(other.output[1])
      /\ out \in Nat \ {0} /\ OddOf(out) = OddOf(route.output[1])
  BY OutputsOf
<1>3. /\ OddOf(OddOf(at)) = OddOf(at) /\ OddOf(OddOf(at) + 1) = OddOf(at)
  BY <1>2, OddFacts
<1>4. cell \in Reg
  BY DEF GoodRoute
<1>5. /\ cell # Cell(at, other.kind, Src(other))
      /\ cell # Cell(OddOf(at), other.kind, Src(other))
      /\ cell # Cell(OddOf(at) + 1, other.kind, Src(other))
  BY <1>2, <1>3 DEF Apart, Cell
<1>. QED
  BY <1>1, <1>4, <1>5, OtherCells DEF Fed

\* A route feeds its own cells, and keeps them fed, when its link is seen.
LEMMA OwnFeeds ==
  ASSUME DeskTypeOK, NEW route, GoodRoute(route), LinkSeen(route),
         NEW out \in ToSet(route.output), NEW to \in ToSet(route.output),
         Fed(route, out) \/ out = to
  PROVE  Written(Feeder(route, to))[Cell(out, route.kind, Src(route))] = <<Level(route)>>
<1>. DEFINE w == Feeder(route, to)
            C(n) == Cell(n, route.kind, Src(route))
<1>1. C(out) \in Reg /\ C(to) \in Reg /\ dev \in [Reg -> Values]
  BY DEF GoodRoute, DeskTypeOK
<1>2. w.args[1] = Level(route)
  BY FeederShape
<1>3. CASE IsPair(route) /\ ~route.stereo
  <2>1. w.reg = C(to)
    BY <1>3, FeederShape
  <2>2. ~Linked(to)
    <3>1. OddOf(to) = route.output[1]
      BY <1>3, OutputsOf
    <3>. QED
      BY <1>3, <3>1 DEF Linked, LinkSeen
  <2>3. Written(w) = [dev EXCEPT ![C(to)] = <<Level(route)>>]
    BY <1>2, <2>1, <2>2 DEF Written, Cell
  <2>. HIDE DEF C, w
  <2>. QED
    BY <1>1, <2>3 DEF Fed, C, w
<1>4. CASE ~(IsPair(route) /\ ~route.stereo)
  <2>. DEFINE at == route.output[1]
  <2>1. w.reg = C(at) /\ w.args[2] = 0
    BY <1>4, FeederShape
  <2>2. CASE ~Linked(at)
    <3>1. ~IsPair(route)
      <4>1. IsPair(route) => OddOf(at) = at
        BY OutputsOf
      <4>. QED
        BY <1>4, <2>2, <4>1 DEF Linked, LinkSeen
    <3>2. out = at
      BY <3>1, OutputsOf
    <3>3. Written(w) = [dev EXCEPT ![C(at)] = <<Level(route)>>]
      BY <1>2, <2>1, <2>2 DEF Written, Cell
    <3>. HIDE DEF C, w, at
    <3>. QED
      BY <1>1, <3>2, <3>3 DEF C, w
  <2>3. CASE Linked(at)
    <3>1. Written(w) = [dev EXCEPT ![C(OddOf(at))] = <<Level(route)>>,
                                   ![C(OddOf(at) + 1)] = <<Level(route)>>]
      BY <1>2, <2>1, <2>3 DEF Written, Cell
    <3>2. out = OddOf(at) \/ out = OddOf(at) + 1
      BY OutputsOf, OddFacts
    <3>. HIDE DEF C, w, at
    <3>. QED
      BY <1>1, <3>1, <3>2 DEF C, w
  <2>. QED
    BY <2>2, <2>3
<1>. QED
  BY <1>3, <1>4

----------------------------------------------------------------------------
(* What a well-wired configuration plans.                                  *)

LEMMA PlannedMessages ==
  ASSUME NEW c \in Configs
  PROVE  /\ ToSet(LinksOf[c]) \subseteq Sendable /\ ToSet(MixesOf[c]) \subseteq Sendable
         /\ ToSet(RemixOf[c]) \subseteq Sendable
         /\ ToSet(Without(LinksOf[c], {})) = ToSet(LinksOf[c])
         /\ ToSet(Without(MixesOf[c], {})) = ToSet(MixesOf[c])
<1>1. {} \in SUBSET Reg
  OBVIOUS
<1>2. /\ Without(LinksOf[c], {}) \in Seq(Sendable) /\ Without(MixesOf[c], {}) \in Seq(Sendable)
      /\ RemixOf[c] \in Seq(Sendable)
  BY <1>1, PlansAreTyped
<1>3. \A msgs \in {LinksOf[c], MixesOf[c]} :
        ToSet(Without(msgs, {})) = {m \in ToSet(msgs) : m.reg \notin {}}
  BY <1>1, LeftAloneIsDropped
<1>4. \A msgs : msgs \in Seq(Sendable) => ToSet(msgs) \subseteq Sendable
  BY DEF ToSet
<1>. QED
  BY <1>2, <1>3, <1>4

LEMMA WiredRoutes ==
  ASSUME NEW c, Wired(c), NEW route \in ToSet(c.routes)
  PROVE  /\ GoodRoute(route)
         /\ \A other \in ToSet(c.routes) : other # route => Apart(route, other)
<1>1. PICK i \in DOMAIN c.routes : route = c.routes[i]
  BY DEF ToSet
<1>2. GoodRoute(route)
  BY <1>1 DEF Wired, GoodRoute, IsPair, Src
<1>3. ASSUME NEW other \in ToSet(c.routes), other # route
      PROVE  Apart(route, other)
  <2>1. PICK j \in DOMAIN c.routes : other = c.routes[j]
    BY DEF ToSet
  <2>. QED
    BY <1>1, <1>3, <2>1 DEF Wired, Apart, Src
<1>. QED
  BY <1>2, <1>3

\* Two messages of the routes about one link say the same.
LEMMA LinkMessagesOf ==
  ASSUME NEW route
  PROVE  ToSet(LinkMessages(route)) =
           IF IsPair(route)
           THEN {Message(Stereo(route.kind, Src(route)), <<1>>),
                 Message(Stereo("output", route.output[1]), <<IF route.stereo THEN 1 ELSE 0>>)}
           ELSE {}
  BY DEF LinkMessages, IsPair, Src, ToSet

LEMMA LinksAreOne ==
  ASSUME NEW c, Wired(c), NEW one \in Links(c), NEW two \in Links(c), one.reg = two.reg
  PROVE  one = two
<1>1. PICK route \in ToSet(c.routes) : one \in ToSet(LinkMessages(route))
  BY DEF Links
<1>2. PICK other \in ToSet(c.routes) : two \in ToSet(LinkMessages(other))
  BY DEF Links
<1>3. /\ GoodRoute(route) /\ GoodRoute(other)
      /\ IsPair(route) /\ IsPair(other)
  BY <1>1, <1>2, WiredRoutes, LinkMessagesOf
<1>4. /\ route.kind # "output" /\ other.kind # "output"
      /\ route.output \in Seq(Nat \ {0}) /\ other.output \in Seq(Nat \ {0})
      /\ Len(route.output) = 2 /\ Len(other.output) = 2
      /\ route.output[2] = route.output[1] + 1 /\ other.output[2] = other.output[1] + 1
  BY <1>3 DEF GoodRoute, IsPair
<1>. DEFINE S(r) == Message(Stereo(r.kind, Src(r)), <<1>>)
            O(r) == Message(Stereo("output", r.output[1]), <<IF r.stereo THEN 1 ELSE 0>>)
<1>5. one \in {S(route), O(route)} /\ two \in {S(other), O(other)}
  BY <1>1, <1>2, <1>3, LinkMessagesOf
<1>6. /\ S(route).reg = <<route.kind, Src(route), "stereo">>
      /\ S(other).reg = <<other.kind, Src(other), "stereo">>
      /\ O(route).reg = <<"output", route.output[1], "stereo">>
      /\ O(other).reg = <<"output", other.output[1], "stereo">>
  BY DEF Message, Stereo
<1>7. CASE one = S(route) /\ two = S(other)
  BY <1>6, <1>7 DEF Message, Stereo
<1>8. CASE one = O(route) /\ two = O(other)
  <2>1. route.output[1] = other.output[1]
    BY <1>6, <1>8
  <2>2. route.output = other.output
    <3>1. \A i \in 1 .. 2 : route.output[i] = other.output[i]
      BY <1>4, <2>1
    <3>. QED
      BY <1>4, <3>1, SeqEqual
  <2>3. route.stereo = other.stereo
    BY <1>4, <2>2 DEF Wired, LinksAgree
  <2>. QED
    BY <1>8, <2>1, <2>3
<1>. HIDE DEF S, O
<1>. QED
  BY <1>4, <1>5, <1>6, <1>7, <1>8

Mixes(c) == UNION {ToSet(MixMessages(route)) : route \in ToSet(c.routes)}

LEMMA BurstsOfRoutes ==
  ASSUME NEW c \in Configs
  PROVE  /\ ToSet(LinksOf[c]) \subseteq Links(c)
         /\ \A m \in Links(c) : \E w \in ToSet(LinksOf[c]) : w.reg = m.reg
         /\ ToSet(MixesOf[c]) \subseteq Mixes(c) \union ToSet(c.channels)
         /\ \A m \in Mixes(c) : \E w \in ToSet(MixesOf[c]) : w.reg = m.reg
         /\ ToSet(RemixOf[c]) = Mixes(c)
         /\ AwaitedOf[c] = {m \in ToSet(LinksOf[c]) : m.reg[1] = "output"}
         /\ WantedOf[c] \subseteq ToSet(LinksOf[c]) \union ToSet(MixesOf[c])
         /\ \A m \in WantedOf[c] : m.reg \in RegistersOf[c]
         /\ \A m \in ToSet(LinksOf[c]) : m.reg \in RegistersOf[c]
<1>. DEFINE about(msgs) == {m.reg : m \in msgs}
<1>1. /\ ToSet(LinksOf[c]) \subseteq Links(c)
      /\ about(Links(c)) \subseteq about(ToSet(LinksOf[c]))
      /\ ToSet(MixesOf[c]) \subseteq Mixes(c) \union ToSet(c.channels)
      /\ about(Mixes(c)) \subseteq about(ToSet(MixesOf[c]))
      /\ ToSet(RemixOf[c]) = Mixes(c)
      /\ AwaitedOf[c] = {m \in ToSet(LinksOf[c]) : m.reg[1] = "output"}
      /\ WantedOf[c] \subseteq ToSet(LinksOf[c]) \union ToSet(MixesOf[c])
      /\ about(ToSet(LinksOf[c])) \subseteq RegistersOf[c]
      /\ about(WantedOf[c]) = RegistersOf[c]
  BY PlansComeFromRoutes DEF Links, Mixes
<1>. QED
  BY <1>1

LEMMA LinkFacts ==
  ASSUME NEW c \in Configs, Wired(c), NEW m \in Links(c)
  PROVE  /\ m \in ToSet(LinksOf[c]) /\ m \in Report
         /\ m.reg[1] # "mix" /\ m.reg[3] = "stereo"
<1>1. PICK w \in ToSet(LinksOf[c]) : w.reg = m.reg
  BY BurstsOfRoutes
<1>2. w = m
  BY <1>1, BurstsOfRoutes, LinksAreOne
<1>3. PICK route \in ToSet(c.routes) : m \in ToSet(LinkMessages(route))
  BY DEF Links
<1>4. /\ IsPair(route) /\ GoodRoute(route)
      /\ \/ m = Message(Stereo(route.kind, Src(route)), <<1>>)
         \/ m = Message(Stereo("output", route.output[1]), <<IF route.stereo THEN 1 ELSE 0>>)
  BY <1>3, LinkMessagesOf, WiredRoutes
<1>5. m.reg[3] = "stereo" /\ (m.reg[1] = route.kind \/ m.reg[1] = "output")
  BY <1>4 DEF Message, Stereo
<1>. QED
  BY <1>1, <1>2, <1>4, <1>5, PlannedMessages DEF Wired, GoodRoute, Sendable

LEMMA MixFacts ==
  ASSUME NEW c \in Configs, Wired(c), NEW w \in Mixes(c) \union ToSet(c.channels)
  PROVE  \/ w.reg[1] # "mix" /\ w.reg[3] # "stereo"
         \/ \E route \in ToSet(c.routes) : \E out \in ToSet(route.output) : w = Feeder(route, out)
<1>1. CASE w \in ToSet(c.channels)
  BY <1>1 DEF Wired
<1>2. CASE w \in Mixes(c)
  <2>1. PICK route \in ToSet(c.routes) : w \in ToSet(MixMessages(route))
    BY <1>2 DEF Mixes
  <2>2. GoodRoute(route)
    BY WiredRoutes
  <2>. QED
    BY <2>1, <2>2, MixOfRoute
<1>. QED
  BY <1>1, <1>2

LEMMA FeederIsCell ==
  ASSUME NEW c, Wired(c), NEW route \in ToSet(c.routes), NEW out \in ToSet(route.output)
  PROVE  Feeder(route, out).reg[1] = "mix"
<1>1. GoodRoute(route)
  BY WiredRoutes
<1>. QED
  BY <1>1, FeederShape DEF Cell

\* Whatever is sent about a link is the message of the routes.
LEMMA PlanAboutLinks ==
  ASSUME NEW c \in Configs, Wired(c), NEW w \in Plan(c), NEW m \in Links(c), w.reg = m.reg
  PROVE  w = m
<1>1. m.reg[1] # "mix" /\ m.reg[3] = "stereo"
  BY LinkFacts
<1>2. CASE w \in ToSet(LinksOf[c])
  BY <1>2, BurstsOfRoutes, LinksAreOne
<1>3. CASE w \in Mixes(c) \union ToSet(c.channels)
  BY <1>1, <1>3, MixFacts, FeederIsCell
<1>. QED
  BY <1>2, <1>3, BurstsOfRoutes DEF Plan

\* And whatever is sent about a cell feeds a route.
LEMMA PlanAboutCells ==
  ASSUME NEW c \in Configs, Wired(c), NEW w \in Plan(c), w.reg[1] = "mix"
  PROVE  \E route \in ToSet(c.routes) : \E out \in ToSet(route.output) : w = Feeder(route, out)
<1>1. w \notin ToSet(LinksOf[c])
  BY BurstsOfRoutes, LinkFacts
<1>2. w \in Mixes(c) \union ToSet(c.channels)
  BY <1>1, BurstsOfRoutes DEF Plan
<1>. QED
  BY <1>2, MixFacts

LEMMA FeedersPlanned ==
  ASSUME NEW c \in Configs, Wired(c), NEW route \in ToSet(c.routes), NEW out \in ToSet(route.output)
  PROVE  /\ Feeder(route, out) \in ToSet(RemixOf[c])
         /\ Feeder(route, out) \in ToSet(MixesOf[c])
<1>. GoodRoute(route)
  BY WiredRoutes
<1>1. Feeder(route, out) \in Mixes(c)
  BY MixOfRoute DEF Mixes
<1>2. Feeder(route, out) \in ToSet(MixesOf[c])
  <2>1. PICK w \in ToSet(MixesOf[c]) : w.reg = Feeder(route, out).reg
    BY <1>1, BurstsOfRoutes
  <2>2. PICK other \in ToSet(c.routes) : \E to \in ToSet(other.output) : w = Feeder(other, to)
    <3>1. w.reg[1] = "mix"
      BY <2>1, FeederIsCell
    <3>. QED
      BY <3>1, PlanAboutCells DEF Plan
  <2>3. PICK to \in ToSet(other.output) : w = Feeder(other, to)
    BY <2>2
  <2>4. GoodRoute(other)
    BY WiredRoutes
  <2>5. other = route
    <3>1. PICK one \in ToSet(route.output) :
            Feeder(route, out).reg = Cell(one, route.kind, Src(route))
      BY FeederShape
    <3>2. PICK two \in ToSet(other.output) :
            Feeder(other, to).reg = Cell(two, other.kind, Src(other))
      BY <2>4, FeederShape
    <3>3. one = two /\ route.kind = other.kind /\ Src(route) = Src(other)
      BY <2>1, <2>3, <3>1, <3>2 DEF Cell
    <3>4. OddOf(one) = OddOf(route.output[1]) /\ OddOf(two) = OddOf(other.output[1])
      BY <2>4, OutputsOf
    <3>. QED
      BY <3>3, <3>4, WiredRoutes DEF Apart
  <2>6. IsPair(route) /\ ~route.stereo => to = out
    <3>1. IsPair(route) /\ ~route.stereo =>
            Cell(to, route.kind, Src(route)) = Cell(out, route.kind, Src(route))
      BY <2>1, <2>3, <2>5, FeederShape
    <3>. QED
      BY <3>1 DEF Cell
  <2>. QED
    BY <2>1, <2>3, <2>5, <2>6 DEF Feeder
<1>. QED
  BY <1>1, <1>2, BurstsOfRoutes

LEMMA AwaitedFacts ==
  ASSUME NEW c \in Configs, Wired(c), NEW m \in AwaitedOf[c]
  PROVE  /\ m \in Links(c) /\ m.reg \in LinkRegs
         /\ m.reg \in RegistersOf[c] /\ RegisterEverReported(m.reg)
         /\ \A w \in WantedOf[c] : w.reg = m.reg => w = m
<1>1. AwaitedOf[c] = {x \in ToSet(LinksOf[c]) : x.reg[1] = "output"}
  BY BurstsOfRoutes
<1>2. m \in ToSet(LinksOf[c]) /\ m.reg[1] = "output"
  BY <1>1
<1>3. m \in Links(c)
  BY <1>2, BurstsOfRoutes
<1>4. m \in Report /\ m.reg[3] = "stereo"
  BY <1>3, LinkFacts
<1>5. ASSUME NEW w \in WantedOf[c], w.reg = m.reg PROVE w = m
  BY <1>3, <1>5, BurstsOfRoutes, PlanAboutLinks DEF Plan
<1>. QED
  BY <1>2, <1>3, <1>4, <1>5, BurstsOfRoutes
     DEF Report, LinkRegs, RegisterEverReported, IsPlaybackMix

LEMMA PairIsAwaited ==
  ASSUME NEW c \in Configs, Wired(c), NEW route \in ToSet(c.routes), IsPair(route)
  PROVE  Message(Stereo("output", route.output[1]), <<IF route.stereo THEN 1 ELSE 0>>)
           \in AwaitedOf[c]
<1>. DEFINE m == Message(Stereo("output", route.output[1]), <<IF route.stereo THEN 1 ELSE 0>>)
<1>1. AwaitedOf[c] = {x \in ToSet(LinksOf[c]) : x.reg[1] = "output"}
  BY BurstsOfRoutes
<1>2. m \in Links(c)
  BY LinkMessagesOf DEF Links
<1>3. m.reg[1] = "output"
  BY DEF Message, Stereo
<1>. HIDE DEF m
<1>4. m \in AwaitedOf[c]
  BY <1>1, <1>2, <1>3, LinkFacts
<1>. QED
  BY <1>4 DEF m

LEMMA SpeaksOnce ==
  ASSUME NEW c \in Configs, Wired(c)
  PROVE  OneVoice({c})
  BY AwaitedFacts, PlanAboutLinks DEF OneVoice, LinksNeeded

----------------------------------------------------------------------------
(* How the threads move, in a session without a SIGHUP.                    *)

\* The main thread applies links, barrier and mix, once.
MainMoves(c) ==
  \/ pc'["main"] = pc["main"] /\ todo'["main"] = todo["main"]
  \/ pc'["main"] = pc["main"] /\ Sends("main") /\ todo'["main"] = Tail(todo["main"])
  \/ pc["main"] = "boot" /\ pc'["main"] = "links" /\ todo'["main"] = Without(LinksOf[c], {})
  \/ /\ pc["main"] \in {"links", "echo", "settle"} /\ (pc["main"] = "links" => todo["main"] = <<>>)
     /\ \/ pc'["main"] \in {"echo", "settle"}
        \/ pc'["main"] = "mix" /\ todo'["main"] = Without(MixesOf[c], {})
  \/ pc["main"] = "mix" /\ todo["main"] = <<>> /\ pc'["main"] = "supervise"
  \/ pc["main"] \notin FirstApply /\ pc'["main"] \notin FirstApply

\* The verifier starts behind it, writes the mix again when it says so, and
\* is done with writing when it reports.
VerifyMoves(c) ==
  /\ pc["verify"] = "none" /\ pc'["verify"] # "none" =>
       /\ pc["main"] = "mix" /\ todo["main"] = <<>>
       /\ pc'["verify"] = "settling" /\ reapplied' = (AwaitedOf[c] = {})
  /\ pc["verify"] # "none" =>
       /\ reapplied' # reapplied => pc'["verify"] = "remix" /\ todo'["verify"] = RemixOf[c]
       /\ pc'["verify"] = "remix" /\ reapplied =>
            /\ pc["verify"] = "remix"
            /\ \/ todo'["verify"] = todo["verify"]
               \/ Sends("verify") /\ todo'["verify"] = Tail(todo["verify"])
       /\ pc["verify"] = "remix" /\ pc'["verify"] # "remix" => todo["verify"] = <<>>
  /\ pc'["verify"] = "report" => pc["verify"] = "report" \/ child = "up"
  /\ verdict' = "verified" => verdict = "verified" \/ pc["verify"] = "report"

\* Only the verifier takes reports out of its window.
WindowMoves ==
  /\ InWindow' =>
       \/ pc["verify"] = "refresh" /\ PutRefresh /\ pendingLinks' = pendingLinks
          /\ confirmed'["verify"] = confirmed["verify"]
       \/ InWindow /\ (Deliver \/ inbox' = inbox) /\ pendingLinks' = pendingLinks
          /\ confirmed'["verify"] = confirmed["verify"]
       \/ HearReport("verify")
  /\ pc'["verify"] = "refresh" =>
       \/ confirmed'["verify"] = {}
       \/ pc["verify"] = "refresh" /\ pendingLinks' = pendingLinks
          /\ confirmed'["verify"] = confirmed["verify"]

MainStill ==
  /\ pc'["main"] = pc["main"] /\ todo'["main"] = todo["main"] /\ skip'["main"] = skip["main"]
  /\ UNCHANGED <<cfg, ready, reload>>
  /\ child' = "starting" => child = "starting"

VerifyStill ==
  /\ pc'["verify"] = pc["verify"] /\ todo'["verify"] = todo["verify"]
  /\ confirmed'["verify"] = confirmed["verify"] /\ UNCHANGED verifyVars
  /\ InWindow => Deliver \/ inbox' = inbox
  /\ (stop => stop') /\ (child = "dead" => child' = "dead")

LEMMA StillMain ==
  ASSUME NEW c, OnlyOnce(c), MainStill
  PROVE  OnlyOnce(c)' /\ MainMoves(c)
  BY DEF OnlyOnce, MainStill, MainMoves

LEMMA StillVerify ==
  ASSUME NEW c, Progress(c), VerifyStill
  PROVE  Progress(c)' /\ VerifyMoves(c) /\ WindowMoves
<1>1. Progress(c)'
  BY DEF Progress, VerifyStill, verifyVars, ShouldStop
<1>2. VerifyMoves(c)
  BY DEF VerifyStill, VerifyMoves, verifyVars
<1>3. WindowMoves
  BY DEF VerifyStill, WindowMoves, verifyVars, InWindow
<1>. QED
  BY <1>1, <1>2, <1>3

LEMMA MainAlone ==
  ASSUME NEW c, Calm, TypeOK, StartInv, OnlyOnce(c), Progress(c), MainStep
  PROVE  OnlyOnce(c)' /\ MainMoves(c) /\ Progress(c)' /\ VerifyMoves(c) /\ WindowMoves
<1>. "main" \in Thread /\ "verify" \in Thread /\ "main" # "verify"
  BY DEF Thread
<1>. USE DEF TypeOK, ThreadTypeOK, StartInv, VerifierAfterReady, FirstApply, InWindow
<1>0. pc["main"] \notin {"listen", "refresh", "top", "recv", "judge", "reload"}
  BY DEF OnlyOnce
<1>1. CASE SendNext("main")
  <2>1. pc'["main"] = pc["main"] /\ Sends("main") /\ todo'["main"] = Tail(todo["main"])
    BY <1>1 DEF SendNext, Sends
  <2>2. OnlyOnce(c)' /\ VerifyStill
    BY <1>1 DEF SendNext, OnlyOnce, VerifyStill, PutRegister, signalVars, verifyVars
  <2>. QED
    BY <2>1, <2>2, StillVerify DEF MainMoves
<1>2. CASE \/ ReachBarrier("main") \/ HearEcho("main") \/ EchoTimeout("main") \/ Settled("main")
  <2>1. pc["verify"] = "none" /\ cfg["main"] = c /\ skip["main"] = {} /\ ~ready
    BY <1>2 DEF OnlyOnce, ReachBarrier, HearEcho, EchoTimeout, Settled
  <2>2. OnlyOnce(c)' /\ VerifyStill
    BY <1>2, <2>1 DEF ReachBarrier, HearEcho, EchoTimeout, Settled, MixBurst, Burst, Goto, Bind,
                      OnlyOnce, VerifyStill, signalVars, verifyVars, deskVars
  <2>3. MainMoves(c)
    BY <1>2, <2>1 DEF ReachBarrier, HearEcho, EchoTimeout, Settled, MixBurst, Burst, Goto, Bind,
                      MainMoves
  <2>. QED
    BY <2>2, <2>3, StillVerify
<1>3. CASE Window("main")
  BY <1>0, <1>3 DEF Window, Listen, RequestDump, AwaitReport, NothingHeard, HearReport,
                    WindowStopped, WindowComplete, WindowDeadline, CloseWindow
<1>4. CASE BackendAwaited
  <2>1. pc["verify"] = "none" /\ cfg["main"] = c /\ child # "starting"
    BY <1>4 DEF OnlyOnce, BackendAwaited, Calm
  <2>2. OnlyOnce(c)' /\ VerifyStill /\ MainMoves(c)
    BY <1>4, <2>1 DEF BackendAwaited, StartApply, Burst, Goto, OnlyOnce, VerifyStill, MainMoves,
                      signalVars, verifyVars, deskVars
  <2>. QED
    BY <2>2, StillVerify
<1>5. CASE FirstApplyOut
  <2>1. pc["verify"] = "none" /\ cfg["verify"] = c
    BY <1>5 DEF OnlyOnce, FirstApplyOut
  <2>2. OnlyOnce(c)' /\ MainMoves(c)
    BY <1>5 DEF FirstApplyOut, OnlyOnce, MainMoves, deskVars
  <2>3. Progress(c)' /\ VerifyMoves(c) /\ WindowMoves
    BY <1>5, <2>1 DEF FirstApplyOut, Progress, VerifyMoves, WindowMoves
  <2>. QED
    BY <2>2, <2>3
<1>6. CASE ReloadApplyOut \/ PollReload \/ ReadConfig \/ ReconcileRefused \/ ReconcileJudge
  BY <1>0, <1>6 DEF ReloadApplyOut, PollReload, ReadConfig, ReconcileRefused, ReconcileJudge,
                    OnlyOnce
<1>7. CASE ChildWaited \/ PollStop
  <2>1. OnlyOnce(c)' /\ VerifyStill /\ MainMoves(c)
    BY <1>7 DEF ChildWaited, PollStop, AtStopCheck, Goto, OnlyOnce, VerifyStill, MainMoves,
                signalVars, verifyVars, deskVars
  <2>. QED
    BY <2>1, StillVerify
<1>8. CASE Escalate
  <2>1. OnlyOnce(c)' /\ VerifyStill /\ MainMoves(c)
    BY <1>8 DEF Escalate, AtStopCheck, Goto, OnlyOnce, VerifyStill, MainMoves, signalVars, verifyVars
  <2>. QED
    BY <2>1, StillVerify
<1>9. CASE Exits
  <2>1. OnlyOnce(c)' /\ VerifyStill /\ MainMoves(c)
    BY <1>9 DEF Exits, Close, OnlyOnce, VerifyStill, MainMoves, signalVars, verifyVars, Calm
  <2>. QED
    BY <2>1, StillVerify
<1>. QED
  BY <1>1, <1>2, <1>3, <1>4, <1>5, <1>6, <1>7, <1>8, <1>9 DEF MainStep, Apply

LEMMA CalmConfig ==
  ASSUME Calm, NEW c \in Startups
  PROVE  c \in Configs /\ Wired(c)
  BY DEF Calm, Configs

\* A window that ends by itself has heard every link it waited for.
LEMMA WindowHeardAll ==
  ASSUME Calm, NEW c \in Startups, TypeOK, StartInv, OnlyOnce(c), Progress(c), StillToCome(c),
         WindowComplete("verify") \/ WindowDeadline("verify")
  PROVE  reapplied \/ ShouldStop("verify")
<1>. c \in Configs /\ Wired(c)
  BY CalmConfig
<1>0. /\ pc["verify"] = "top" /\ cfg["verify"] = c /\ Registers("verify") = RegistersOf[c]
      /\ child # "starting"
  BY DEF WindowComplete, WindowDeadline, CloseWindow, OnlyOnce, Registers, Thread, StartInv,
         VerifierAfterReady, FirstApply
<1>1. SUFFICES ASSUME NEW m \in pendingLinks, child = "up"
               PROVE  FALSE
  <2>1. child \in {"starting", "up", "dead"}
    BY DEF TypeOK, DeskTypeOK
  <2>. QED
    BY <1>0, <1>1, <2>1 DEF Progress, ShouldStop
<1>2. /\ m \in AwaitedOf[c] /\ m.reg \in LinkRegs /\ m.reg \in RegistersOf[c]
      /\ RegisterEverReported(m.reg)
  BY AwaitedFacts DEF Progress
<1>3. CASE WindowComplete("verify")
  BY <1>0, <1>2, <1>3 DEF WindowComplete, WindowMayClose, StillToCome, InWindow
<1>4. CASE WindowDeadline("verify")
  <2>1. m.reg \in RegistersOf[c] \ Late
    BY <1>2 DEF Calm
  <2>2. m.reg \notin ToSet(dump) /\ m \notin ToSet(wire \o inbox)
    BY <1>0, <1>4, <2>1 DEF WindowDeadline, DeadlineFor
  <2>3. ToSet(wire \o inbox) = ToSet(wire) \union ToSet(inbox)
    BY ConcatRange DEF TypeOK, DeskTypeOK
  <2>. QED
    BY <1>0, <1>1, <2>2, <2>3 DEF StillToCome, InWindow
<1>. QED
  BY <1>3, <1>4

\* The report that completes the links is not a stale one.
LEMMA LinksObserved ==
  ASSUME NEW c, TypeOK, OnlyOnce(c), Progress(c), HearReport("verify")
  PROVE  Progress(c)' /\ VerifyMoves(c) /\ WindowMoves
<1>. DEFINE m == Head(inbox)
            left == pendingLinks \ {m}
            stale == \E p \in pendingLinks : p.reg = m.reg /\ p # m
<1>0. /\ pc["verify"] = "recv" /\ cfg["verify"] = c /\ "verify" \in Thread
      /\ UNCHANGED <<child, verdict, stop>>
  BY DEF HearReport, OnlyOnce, Thread, signalVars
<1>1. /\ pendingLinks' = left
      /\ \/ /\ ~stale /\ left = {} /\ ~reapplied /\ ~ShouldStop("verify")
            /\ reapplied' = TRUE /\ Burst("verify", "remix", RemixOf[c])
         \/ /\ stale \/ left # {} \/ reapplied \/ ShouldStop("verify")
            /\ Goto("verify", "top") /\ UNCHANGED <<todo, reapplied>>
  BY <1>0 DEF HearReport, ObserveLinks
<1>2. left = {} => ~stale
  OBVIOUS
<1>. HIDE DEF m, left, stale
<1>3. left \subseteq pendingLinks
  BY DEF left
<1>4. Progress(c)'
  BY <1>0, <1>1, <1>2, <1>3 DEF Progress, TypeOK, ThreadTypeOK, Burst, Goto, ShouldStop
<1>5. VerifyMoves(c)
  BY <1>0, <1>1 DEF Progress, VerifyMoves, TypeOK, ThreadTypeOK, VerifierTypeOK, Burst, Goto
<1>6. WindowMoves
  BY <1>0, <1>1 DEF WindowMoves, TypeOK, ThreadTypeOK, Burst, Goto
<1>. QED
  BY <1>4, <1>5, <1>6

LEMMA VerifyAlone ==
  ASSUME Calm, NEW c \in Startups, TypeOK, StartInv, PortDiscipline,
         OnlyOnce(c), Progress(c), StillToCome(c), VerifyStep
  PROVE  OnlyOnce(c)' /\ MainMoves(c) /\ Progress(c)' /\ VerifyMoves(c) /\ WindowMoves
<1>. "main" \in Thread /\ "verify" \in Thread /\ "main" # "verify"
  BY DEF Thread
<1>. USE DEF TypeOK, ThreadTypeOK, StartInv, VerifierAfterReady
<1>1. MainStill
  <2>1. CASE Apply("verify")
    BY <2>1 DEF Apply, SendNext, ReachBarrier, HearEcho, EchoTimeout, Settled, MixBurst, Burst,
                Goto, Bind, PutRegister, MainStill, signalVars, deskVars
  <2>2. CASE Window("verify")
    BY <2>2 DEF Window, Listen, RequestDump, AwaitReport, NothingHeard, HearReport, ObserveLinks,
                WindowStopped, WindowComplete, WindowDeadline, CloseWindow, PutRefresh, Burst,
                Goto, Bind, MainStill, signalVars, deskVars
  <2>3. CASE SettlingEnds \/ VerifyBlind \/ BlindDelayEnds
    BY <2>3 DEF SettlingEnds, VerifyBlind, BlindDelayEnds, VerifierEnds, PutRefresh, Burst,
                Goto, MainStill, signalVars, deskVars
  <2>4. CASE VerifyJudge \/ VerifyReport \/ VerifyBurstOut
    BY <2>4 DEF VerifyJudge, VerifyReport, VerifyBurstOut, VerifierEnds, StartApply, Burst,
                ReapplyWithoutConfirmation, Goto, MainStill, signalVars, deskVars
  <2>. QED
    BY <2>1, <2>2, <2>3, <2>4 DEF VerifyStep
<1>. SUFFICES Progress(c)' /\ VerifyMoves(c) /\ WindowMoves
  BY <1>1, StillMain
<1>. USE DEF Progress, VerifyMoves, WindowMoves, InWindow, ShouldStop
<1>2. CASE SendNext("verify")
  BY <1>2 DEF SendNext, Sends, Writing, PutRegister, signalVars, verifyVars
<1>3. CASE ReachBarrier("verify") \/ HearEcho("verify") \/ EchoTimeout("verify") \/ Settled("verify")
  BY <1>3 DEF ReachBarrier, HearEcho, EchoTimeout, Settled, MixBurst, Burst, Goto, Bind,
              signalVars, verifyVars, deskVars
<1>4. CASE Listen("verify") \/ RequestDump("verify")
  BY <1>4 DEF Listen, RequestDump, PutRefresh, Goto, Bind, signalVars, verifyVars
<1>5. CASE AwaitReport("verify") \/ NothingHeard("verify")
  BY <1>5 DEF AwaitReport, NothingHeard, Goto, signalVars, verifyVars, deskVars
<1>6. CASE HearReport("verify")
  BY <1>6, LinksObserved
<1>7. CASE WindowStopped("verify") \/ WindowComplete("verify") \/ WindowDeadline("verify")
  <2>1. reapplied \/ ShouldStop("verify")
    BY <1>7, WindowHeardAll DEF WindowStopped
  <2>2. CloseWindow("verify")
    BY <1>7 DEF WindowStopped, WindowComplete, WindowDeadline
  <2>. QED
    BY <2>1, <2>2 DEF CloseWindow, Close, Goto, signalVars, verifyVars
<1>8. CASE SettlingEnds \/ VerifyBlind \/ BlindDelayEnds
  BY <1>8 DEF SettlingEnds, VerifyBlind, BlindDelayEnds, VerifierEnds, PutRefresh, Burst, Goto,
              signalVars, deskVars
<1>9. CASE VerifyJudge
  <2>1. child # "starting"
    BY <1>9 DEF VerifyJudge, OnlyOnce, FirstApply
  <2>. QED
    BY <1>9, <2>1 DEF VerifyJudge, VerifierEnds, ReapplyWithoutConfirmation, Burst, Goto,
                      signalVars, deskVars, DeskTypeOK
<1>10. CASE VerifyReport \/ VerifyBurstOut
  BY <1>10 DEF VerifyReport, VerifyBurstOut, VerifierEnds, StartApply, Burst, Goto, signalVars,
               deskVars
<1>. QED
  BY <1>1, <1>2, <1>3, <1>4, <1>5, <1>6, <1>7, <1>8, <1>9, <1>10
     DEF VerifyStep, Apply, Window

LEMMA MovesInNext ==
  ASSUME Calm, NEW c \in Startups, TypeOK, StartInv, PortDiscipline,
         OnlyOnce(c), Progress(c), StillToCome(c), [Next]_vars, hups' = hups
  PROVE  OnlyOnce(c)' /\ MainMoves(c) /\ Progress(c)' /\ VerifyMoves(c) /\ WindowMoves
<1>1. CASE MainStep
  BY <1>1, MainAlone
<1>2. CASE VerifyStep
  BY <1>2, VerifyAlone
<1>3. CASE HupAsked
  BY <1>3, SessionConstants DEF HupAsked, TypeOK, HistoryTypeOK
<1>4. CASE StopAsked \/ UNCHANGED vars
  <2>1. MainStill /\ VerifyStill
    BY <1>4 DEF StopAsked, vars, deskVars, threadVars, verifyVars, signalVars, MainStill, VerifyStill
  <2>. QED
    BY <2>1, StillMain, StillVerify
<1>5. CASE Environment /\ UNCHANGED <<threadVars, verifyVars, signalVars>>
  <2>1. /\ inbox' = inbox \/ Deliver
        /\ child' = "starting" => child = "starting"
        /\ child = "dead" => child' = "dead"
    BY <1>5 DEF Environment, Hand, HandTurns, DeskStep, DumpNext, BackendBinds, BackendDies,
                GuiOpens, GuiCloses, Deliver
  <2>2. MainStill /\ VerifyStill
    BY <1>5, <2>1 DEF threadVars, verifyVars, signalVars, MainStill, VerifyStill
  <2>. QED
    BY <2>2, StillMain, StillVerify
<1>. QED
  BY <1>1, <1>2, <1>3, <1>4, <1>5 DEF Next

----------------------------------------------------------------------------
(* What the desk does to links and cells.                                  *)

LEMMA SendsPlanned ==
  ASSUME TypeOK, NEW c, LinkInv({c}), NEW t \in Thread, todo[t] # <<>>
  PROVE  /\ Head(todo[t]) \in Plan(c) /\ Head(todo[t]) \in Sendable
         /\ \A w \in ToSet(todo[t]) : w = Head(todo[t]) \/ w \in ToSet(Tail(todo[t]))
<1>1. todo[t] \in Seq(Sendable) /\ 1 \in 1 .. Len(todo[t]) /\ Head(todo[t]) = todo[t][1]
  BY DEF TypeOK, ThreadTypeOK
<1>2. Head(todo[t]) \in Plan(c)
  BY <1>1 DEF LinkInv, Planned
<1>3. ASSUME NEW i \in 1 .. Len(todo[t]), i # 1
      PROVE  todo[t][i] \in ToSet(Tail(todo[t]))
  <2>1. i - 1 \in 1 .. Len(Tail(todo[t])) /\ Tail(todo[t])[i - 1] = todo[t][i]
    BY <1>1, <1>3
  <2>. QED
    BY <1>1, <2>1 DEF ToSet
<1>. QED
  BY <1>1, <1>2, <1>3 DEF ToSet

\* A message that is not about the register leaves it alone, unless it
\* feeds a route that it belongs to.
LEMMA WrittenAside ==
  ASSUME TypeOK, NEW c \in Configs, Wired(c), NEW w \in Plan(c), NEW r \in Reg,
         w.reg # r, r[1] # "mix" \/ w.reg[1] # "mix"
  PROVE  Written(w)[r] = dev[r]
<1>. DeskTypeOK
  BY DEF TypeOK
<1>1. CASE w.reg[1] # "mix"
  BY <1>1 DEF Written, DeskTypeOK
<1>2. CASE w.reg[1] = "mix" /\ r[1] # "mix"
  <2>1. PICK route \in ToSet(c.routes) : \E out \in ToSet(route.output) : w = Feeder(route, out)
    BY <1>2, PlanAboutCells
  <2>2. PICK at : w.reg = Cell(at, route.kind, Src(route))
    BY <2>1, WiredRoutes, FeederShape
  <2>3. \A n, kind, src : r # Cell(n, kind, src)
    BY <1>2 DEF Cell
  <2>4. /\ r # Cell(OddOf(at), route.kind, Src(route))
        /\ r # Cell(OddOf(at) + 1, route.kind, Src(route))
    BY <2>3
  <2>. QED
    BY <2>2, <2>4, OtherCells
<1>. QED
  BY <1>1, <1>2

LEMMA WhoChangesDev ==
  ASSUME DeskChange
  PROVE  \/ dev' = dev
         \/ \E t \in Thread : Sends(t)
         \/ \E r \in HandRegs : HandTurns(r)
<1>1. CASE ControlStep \/ RefreshStep \/ DumpNext \/ Deliver \/ BackendBinds \/ LosesBackend
  BY <1>1 DEF ControlStep, KeepsReports, RefreshStep, PutRefresh, DumpNext, Deliver,
              BackendBinds, LosesBackend
<1>. QED
  BY <1>1 DEF DeskChange

\* Whoever sends, sends what is planned.
SendsOf(c) == \A t \in Thread : Sends(t) => Head(todo[t]) \in Plan(c)

LEMMA LinkKept ==
  ASSUME HandsOff, NEW c \in Configs, Wired(c), TypeOK, SendsOf(c), NEW m \in Links(c), DeskChange
  PROVE  /\ dev[m.reg] = m.args => dev'[m.reg] = m.args
         /\ \A t \in Thread :
              Sends(t) /\ dev' = Written(m) /\ m = Head(todo[t]) => dev'[m.reg] = m.args
<1>0. m.reg \in Reg /\ m.reg[1] # "mix" /\ m.reg[3] = "stereo" /\ dev \in [Reg -> Values]
  BY LinkFacts DEF Report, TypeOK, DeskTypeOK
<1>1. ASSUME NEW t \in Thread, Sends(t)
      PROVE  /\ dev[m.reg] = m.args => dev'[m.reg] = m.args
             /\ dev' = Written(m) /\ m = Head(todo[t]) => dev'[m.reg] = m.args
  <2>. DEFINE w == Head(todo[t])
  <2>1. w \in Plan(c)
    BY <1>1 DEF SendsOf
  <2>2. dev' = dev \/ dev' = Written(w)
    BY <1>1 DEF Sends, PutRegister
  <2>. HIDE DEF w
  <2>4. w.reg # m.reg => Written(w)[m.reg] = dev[m.reg]
    BY <1>0, <2>1, WrittenAside
  <2>5. w.reg = m.reg => w = m /\ Written(w)[m.reg] = m.args
    BY <1>0, <2>1, PlanAboutLinks DEF Written
  <2>. QED
    BY <2>2, <2>4, <2>5 DEF w
<1>2. ASSUME NEW r \in HandRegs, HandTurns(r)
      PROVE  dev'[m.reg] = dev[m.reg]
  BY <1>0, <1>2 DEF HandTurns, HandsOff
<1>3. \/ dev' = dev
      \/ \E t \in Thread : Sends(t)
      \/ \E r \in HandRegs : HandTurns(r)
  BY WhoChangesDev
<1>. QED
  BY <1>1, <1>2, <1>3

LEMMA CellKept ==
  ASSUME HandsOff, NEW c \in Configs, Wired(c), TypeOK, SendsOf(c), DeskChange,
         NEW route \in ToSet(c.routes), NEW out \in ToSet(route.output), LinkSeen(route)
  PROVE  /\ Fed(route, out) => Fed(route, out)'
         /\ \A t \in Thread :
              Sends(t) /\ dev' = Written(Head(todo[t])) /\ Feeder(route, out) = Head(todo[t])
                => Fed(route, out)'
<1>. GoodRoute(route)
  BY WiredRoutes
<1>. DEFINE cell == Cell(out, route.kind, Src(route))
<1>0. /\ cell \in Reg /\ cell[1] = "mix" /\ dev \in [Reg -> Values] /\ DeskTypeOK
      /\ Fed(route, out) <=> dev[cell] = <<Level(route)>>
      /\ Fed(route, out)' <=> dev'[cell] = <<Level(route)>>
  BY DEF GoodRoute, TypeOK, DeskTypeOK, Cell, Fed
<1>1. ASSUME NEW t \in Thread, Sends(t)
      PROVE  /\ Fed(route, out) => Fed(route, out)'
             /\ dev' = Written(Head(todo[t])) /\ Feeder(route, out) = Head(todo[t]) => Fed(route, out)'
  <2>. DEFINE w == Head(todo[t])
  <2>1. w \in Plan(c)
    BY <1>1 DEF SendsOf
  <2>2. dev' = dev \/ dev' = Written(w)
    BY <1>1 DEF Sends, PutRegister
  <2>. HIDE DEF w, cell
  <2>4. w = Feeder(route, out) => Written(w)[cell] = <<Level(route)>>
    BY <1>0, OwnFeeds DEF cell
  <2>5. Fed(route, out) => Written(w)[cell] = <<Level(route)>>
    <3>1. CASE w.reg[1] # "mix"
      BY <1>0, <2>1, <3>1, WrittenAside
    <3>2. CASE w.reg[1] = "mix"
      <4>1. PICK other \in ToSet(c.routes) : \E to \in ToSet(other.output) : w = Feeder(other, to)
        BY <2>1, <3>2, PlanAboutCells
      <4>2. PICK to \in ToSet(other.output) : w = Feeder(other, to)
        BY <4>1
      <4>3. CASE other = route
        BY <1>0, <4>2, <4>3, OwnFeeds DEF cell
      <4>4. CASE other # route
        BY <1>0, <4>2, <4>4, WiredRoutes, ApartKeeps DEF cell
      <4>. QED
        BY <4>3, <4>4
    <3>. QED
      BY <3>1, <3>2
  <2>. QED
    BY <1>0, <2>2, <2>4, <2>5 DEF w
<1>2. ASSUME NEW r \in HandRegs, HandTurns(r)
      PROVE  dev'[cell] = dev[cell]
  BY <1>0, <1>2 DEF HandTurns, HandsOff
<1>3. \/ dev' = dev
      \/ \E t \in Thread : Sends(t)
      \/ \E r \in HandRegs : HandTurns(r)
  BY WhoChangesDev
<1>. HIDE DEF cell
<1>. QED
  BY <1>0, <1>1, <1>2, <1>3

\* On a calm desk all of them arrive, and are planned.
LEMMA CalmSends ==
  ASSUME Calm, TypeOK, NEW c, LinkInv({c})
  PROVE  /\ HandsOff /\ SendsOf(c)
         /\ \A t \in Thread : Sends(t) /\ child = "up" => dev' = Written(Head(todo[t]))
  BY SendsPlanned, NothingLost DEF Calm, SendsOf, Sends

----------------------------------------------------------------------------
(* The parts of the invariant that are about the device.                   *)

LEMMA TrustBefore ==
  ASSUME NEW c, OnlyOnce(c), VerifyMoves(c), DeskChange, Trusted', pc["main"] # "boot"
  PROVE  Trusted
<1>1. child' = "up" => child = "up"
  BY DEF DeskChange, ControlStep, KeepsReports, RefreshStep, PutRefresh, Sends, PutRegister,
         DumpNext, Deliver, BackendBinds, LosesBackend, HandTurns, OnlyOnce
<1>. QED
  BY <1>1 DEF Trusted, VerifyMoves

\* While something is still to be written the backend must live.
LEMMA TrustedWriter ==
  ASSUME NEW c, StartInv, OnlyOnce(c), Progress(c), Trusted,
         pc["main"] \in FirstApply \/ pc["verify"] = "remix"
  PROVE  child = "up"
  BY DEF StartInv, VerifierAfterReady, OnlyOnce, Progress, Trusted

LEMMA SeenWhenReapplied ==
  ASSUME NEW c \in Configs, Wired(c), LinkInv({c}), OnlyOnce(c), Progress(c),
         pc["verify"] # "none", reapplied, NEW route \in ToSet(c.routes)
  PROVE  LinkSeen(route)
<1>. SUFFICES ASSUME IsPair(route)
              PROVE  view[Stereo("output", route.output[1])] = <<IF route.stereo THEN 1 ELSE 0>>
  BY DEF LinkSeen
<1>. DEFINE m == Message(Stereo("output", route.output[1]), <<IF route.stereo THEN 1 ELSE 0>>)
<1>1. m \in AwaitedOf[c]
  BY PairIsAwaited
<1>2. m.reg = Stereo("output", route.output[1]) /\ m.args = <<IF route.stereo THEN 1 ELSE 0>>
  BY DEF Message
<1>. HIDE DEF m
<1>3. Sure(m)
  BY <1>1 DEF LinkInv, TickedOffIsSure, OnlyOnce, Progress, Thread
<1>. QED
  BY <1>2, <1>3 DEF Sure

LEMMA LinksSetStep ==
  ASSUME Calm, NEW c \in Startups, TypeOK, StartInv, LinkInv({c}), OnlyOnce(c), Progress(c),
         LinksSet(c), DeskChange, MainMoves(c), VerifyMoves(c)
  PROVE  LinksSet(c)'
<1>. "main" \in Thread /\ "verify" \in Thread /\ c \in Configs /\ Wired(c)
  BY CalmConfig DEF Thread
<1>. SUFFICES ASSUME Trusted', pc'["main"] \in FirstApply \/ pc'["verify"] # "none",
                     NEW m \in Links(c)
              PROVE  dev'[m.reg] = m.args \/ (pc'["main"] = "links" /\ m \in ToSet(todo'["main"]))
  BY DEF LinksSet
<1>1. CASE pc["main"] \notin FirstApply /\ pc["verify"] = "none"
  <2>1. pc'["main"] = "links" /\ todo'["main"] = Without(LinksOf[c], {})
    BY <1>1 DEF MainMoves, VerifyMoves, FirstApply, Sends, Writing
  <2>. QED
    BY <2>1, PlannedMessages, LinkFacts
<1>2. CASE pc["main"] \in FirstApply \/ pc["verify"] # "none"
  <2>1. Trusted
    BY <1>2, TrustBefore DEF OnlyOnce, FirstApply, StartInv, VerifierAfterReady
  <2>2. CASE dev[m.reg] = m.args
    BY <2>2, LinkKept, CalmSends
  <2>3. CASE pc["main"] = "links" /\ m \in ToSet(todo["main"])
    <3>1. child = "up"
      BY <2>1, <2>3, TrustedWriter DEF FirstApply
    <3>2. todo["main"] # <<>>
      BY <2>3 DEF ToSet
    <3>3. m = Head(todo["main"]) \/ m \in ToSet(Tail(todo["main"]))
      BY <2>3, <3>2, SendsPlanned
    <3>. QED
      BY <2>3, <3>1, <3>2, <3>3, LinkKept, CalmSends DEF MainMoves, FirstApply
  <2>. QED
    BY <1>2, <2>1, <2>2, <2>3 DEF LinksSet
<1>. QED
  BY <1>1, <1>2

LEMMA SinglesFedStep ==
  ASSUME Calm, NEW c \in Startups, TypeOK, StartInv, LinkInv({c}), OnlyOnce(c), Progress(c),
         SinglesFed(c), DeskChange, MainMoves(c), VerifyMoves(c)
  PROVE  SinglesFed(c)'
<1>. "main" \in Thread /\ "verify" \in Thread /\ c \in Configs /\ Wired(c)
  BY CalmConfig DEF Thread
<1>. SUFFICES ASSUME Trusted', pc'["main"] = "mix" \/ pc'["verify"] # "none",
                     NEW route \in ToSet(c.routes), ~IsPair(route), NEW out \in ToSet(route.output)
              PROVE  \/ Fed(route, out)'
                     \/ pc'["main"] = "mix" /\ Feeder(route, out) \in ToSet(todo'["main"])
  BY DEF SinglesFed
<1>0. LinkSeen(route)
  BY DEF LinkSeen
<1>1. CASE pc["main"] # "mix" /\ pc["verify"] = "none"
  <2>1. pc'["main"] = "mix" /\ todo'["main"] = Without(MixesOf[c], {})
    BY <1>1 DEF MainMoves, VerifyMoves, FirstApply
  <2>. QED
    BY <2>1, PlannedMessages, FeedersPlanned
<1>2. CASE pc["main"] = "mix" \/ pc["verify"] # "none"
  <2>1. Trusted
    BY <1>2, TrustBefore DEF OnlyOnce, FirstApply, StartInv, VerifierAfterReady
  <2>2. CASE Fed(route, out)
    BY <1>0, <2>2, CellKept, CalmSends
  <2>3. CASE pc["main"] = "mix" /\ Feeder(route, out) \in ToSet(todo["main"])
    <3>1. child = "up"
      BY <2>1, <2>3, TrustedWriter DEF FirstApply
    <3>2. todo["main"] # <<>>
      BY <2>3 DEF ToSet
    <3>3. \/ Feeder(route, out) = Head(todo["main"])
          \/ Feeder(route, out) \in ToSet(Tail(todo["main"]))
      BY <2>3, <3>2, SendsPlanned
    <3>. QED
      BY <1>0, <2>3, <3>1, <3>2, <3>3, CellKept, CalmSends DEF MainMoves, FirstApply
  <2>. QED
    BY <1>2, <2>1, <2>2, <2>3 DEF SinglesFed
<1>. QED
  BY <1>1, <1>2

LEMMA PairsFedStep ==
  ASSUME Calm, NEW c \in Startups, TypeOK, StartInv, LinkInv({c}), OnlyOnce(c), Progress(c),
         PairsFed(c), DeskChange, MainMoves(c), VerifyMoves(c)
  PROVE  PairsFed(c)'
<1>. "main" \in Thread /\ "verify" \in Thread /\ c \in Configs /\ Wired(c)
  BY CalmConfig DEF Thread
<1>. SUFFICES ASSUME Trusted', pc'["verify"] # "none", reapplied',
                     NEW route \in ToSet(c.routes), IsPair(route), NEW out \in ToSet(route.output)
              PROVE  \/ Fed(route, out)'
                     \/ pc'["verify"] = "remix" /\ Feeder(route, out) \in ToSet(todo'["verify"])
  BY DEF PairsFed
<1>1. CASE pc["verify"] = "none"
  <2>1. AwaitedOf[c] = {}
    BY <1>1 DEF VerifyMoves
  <2>. QED
    BY <2>1, PairIsAwaited
<1>2. CASE pc["verify"] # "none" /\ ~reapplied
  <2>1. pc'["verify"] = "remix" /\ todo'["verify"] = RemixOf[c]
    BY <1>2 DEF VerifyMoves
  <2>. QED
    BY <2>1, FeedersPlanned
<1>3. CASE pc["verify"] # "none" /\ reapplied
  <2>0. LinkSeen(route)
    BY <1>3, SeenWhenReapplied
  <2>1. Trusted
    BY <1>3, TrustBefore DEF OnlyOnce, FirstApply, StartInv, VerifierAfterReady
  <2>2. CASE Fed(route, out)
    BY <2>0, <2>2, CellKept, CalmSends
  <2>3. CASE pc["verify"] = "remix" /\ Feeder(route, out) \in ToSet(todo["verify"])
    <3>1. child = "up"
      BY <2>1, <2>3, TrustedWriter
    <3>2. todo["verify"] # <<>>
      BY <2>3 DEF ToSet
    <3>3. \/ Feeder(route, out) = Head(todo["verify"])
          \/ Feeder(route, out) \in ToSet(Tail(todo["verify"]))
      BY <2>3, <3>2, SendsPlanned
    <3>. QED
      BY <1>3, <2>0, <2>3, <3>1, <3>2, <3>3, CellKept, CalmSends DEF VerifyMoves
  <2>. QED
    BY <1>3, <2>1, <2>2, <2>3 DEF PairsFed
<1>. QED
  BY <1>1, <1>2, <1>3

\* A link on its way moves from the dump to the wire to the port.
LEMMA OnItsWay ==
  ASSUME Calm, TypeOK, NEW m \in Report, dev[m.reg] = m.args,
         m.reg \in ToSet(dump) \/ m \in ToSet(wire) \/ m \in ToSet(inbox),
         port \in Thread, DeskChange, child' = "up", Deliver \/ inbox' = inbox,
         m.reg \in ToSet(DumpOrder)
  PROVE  m.reg \in ToSet(dump') \/ m \in ToSet(wire') \/ m \in ToSet(inbox')
<1>1. CASE m.reg \in ToSet(dump)
  <2>1. m = Message(m.reg, dev[m.reg])
    BY DEF Message, Report
  <2>. QED
    BY <1>1, <2>1, DumpArrives
<1>2. CASE m \in UnderWay
  BY <1>2, ReportsArrive DEF Calm, UnderWay
<1>. QED
  BY <1>1, <1>2 DEF UnderWay

LEMMA StillToComeStep ==
  ASSUME Calm, NEW c \in Startups, TypeOK, StartInv, PortDiscipline, OnlyOnce(c), Progress(c),
         Progress(c)', LinksSet(c), StillToCome(c), DeskChange, WindowMoves
  PROVE  StillToCome(c)'
<1>. "verify" \in Thread /\ c \in Configs /\ Wired(c)
  BY CalmConfig DEF Thread
<1>0. \A m \in AwaitedOf[c] : m \in Links(c) /\ m \in Report /\ m.reg \in ToSet(DumpOrder)
  BY AwaitedFacts, LinkFacts DEF Calm
<1>1. ASSUME InWindow', child' = "up", NEW m \in pendingLinks'
      PROVE  m.reg \in ToSet(dump') \/ m \in ToSet(wire') \/ m \in ToSet(inbox')
  <2>0. m \in AwaitedOf[c]
    BY <1>1 DEF Progress
  <2>1. CASE pc["verify"] = "refresh" /\ PutRefresh
    <3>1. child = "up"
      BY <1>1, <2>1 DEF PutRefresh
    <3>. QED
      BY <1>0, <2>0, <2>1, <3>1, NothingLost DEF Calm
  <2>2. CASE InWindow /\ (Deliver \/ inbox' = inbox) /\ pendingLinks' = pendingLinks
    <3>1. child = "up"
      BY <1>1, <2>2 DEF DeskChange, ControlStep, KeepsReports, RefreshStep, PutRefresh, Sends,
         PutRegister, DumpNext, Deliver, BackendBinds, LosesBackend, HandTurns, OnlyOnce,
         InWindow, StartInv, VerifierAfterReady, FirstApply
    <3>2. dev[m.reg] = m.args
      BY <1>0, <2>0, <2>2, <3>1 DEF LinksSet, Trusted, InWindow, OnlyOnce, StartInv,
         VerifierAfterReady, FirstApply
    <3>3. port \in Thread
      BY <2>2 DEF InWindow, PortDiscipline, Listening
    <3>. QED
      BY <1>0, <1>1, <2>0, <2>2, <3>1, <3>2, <3>3, OnItsWay DEF StillToCome
  <2>3. CASE HearReport("verify")
    <3>1. /\ pc["verify"] = "recv" /\ inbox # <<>> /\ inbox' = Tail(inbox)
          /\ pendingLinks' = pendingLinks \ {Head(inbox)} /\ UNCHANGED <<wire, dump, child>>
      BY <2>3 DEF HearReport, ObserveLinks
    <3>2. m \in ToSet(inbox) => m = Head(inbox) \/ m \in ToSet(Tail(inbox))
      BY <3>1, HeadOrTail DEF TypeOK, DeskTypeOK
    <3>. QED
      BY <1>1, <3>1, <3>2 DEF StillToCome, InWindow
  <2>. QED
    BY <1>1, <2>1, <2>2, <2>3 DEF WindowMoves
<1>2. ASSUME InWindow' \/ pc'["verify"] = "refresh", NEW m \in pendingLinks'
      PROVE  m.reg \notin confirmed'["verify"]
  <2>1. CASE HearReport("verify")
    <3>1. /\ pc["verify"] = "recv" /\ pendingLinks' = pendingLinks \ {Head(inbox)}
          /\ Absorb("verify", Head(inbox))
      BY <2>1 DEF HearReport, ObserveLinks
    <3>2. \/ confirmed' = confirmed
          \/ /\ Head(inbox) \in WantedOf[c]
             /\ confirmed'["verify"] = confirmed["verify"] \union {Head(inbox).reg}
      BY <3>1 DEF Absorb, OnlyOnce, TypeOK, ThreadTypeOK
    <3>3. m \in pendingLinks /\ m # Head(inbox) /\ m \in AwaitedOf[c]
      BY <1>2, <3>1 DEF Progress
    <3>4. Head(inbox) \in WantedOf[c] => Head(inbox).reg # m.reg
      BY <3>3, AwaitedFacts
    <3>. QED
      BY <3>1, <3>2, <3>3, <3>4 DEF StillToCome, InWindow
  <2>2. CASE confirmed'["verify"] = {}
    BY <2>2
  <2>. QED
    BY <1>2, <2>1, <2>2 DEF WindowMoves, StillToCome, InWindow
<1>. QED
  BY <1>1, <1>2 DEF StillToCome, InWindow

----------------------------------------------------------------------------
(* The theorem.                                                            *)

LEMMA AudibleInit ==
  ASSUME Init
  PROVE  Audible
<1>1. PICK c \in Startups : cfg = [t \in Thread |-> c]
  BY DEF Init
<1>. /\ "main" \in Thread /\ "verify" \in Thread /\ "main" # "verify"
  BY DEF Thread
<1>2. LinkInv({c})
  <2>1. Planned({c})
    BY DEF Init, Planned
  <2>2. \A m \in LinksNeeded({c}) : Steady(m)
    BY DEF Init, DeskInit, Steady, ReportIsFinal, HeardIsSure, ToSet
  <2>. QED
    BY <1>1, <2>1, <2>2 DEF Init, LinkInv, TickedOffIsSure
<1>3. OnlyOnce(c) /\ Progress(c) /\ StillToCome(c)
  BY <1>1 DEF Init, DeskInit, OnlyOnce, Progress, StillToCome, InWindow, FirstApply
<1>4. LinksSet(c) /\ SinglesFed(c) /\ PairsFed(c)
  BY DEF Init, DeskInit, LinksSet, SinglesFed, PairsFed, FirstApply
<1>. QED
  BY <1>2, <1>3, <1>4 DEF Audible, AudibleInv

LEMMA AudibleStep ==
  ASSUME Calm, TypeOK, StartInv, PortDiscipline, Audible, [Next]_vars
  PROVE  Audible'
<1>1. hups' = hups \/ (HupAsked /\ hups' = hups + 1)
  BY DEF Next, MainStep, VerifyStep, Apply, Window, SendNext, ReachBarrier, HearEcho, EchoTimeout,
         Settled, Listen, RequestDump, AwaitReport, NothingHeard, HearReport, WindowStopped,
         WindowComplete, WindowDeadline, CloseWindow, BackendAwaited, FirstApplyOut,
         ReloadApplyOut, ChildWaited, PollReload, PollStop, Escalate, ReadConfig,
         ReconcileRefused, ReconcileJudge, Exits, SettlingEnds, VerifyBlind, BlindDelayEnds,
         VerifyJudge, VerifyReport, VerifyBurstOut, StopAsked, HupAsked, Environment, Hand,
         history, vars
<1>. SUFFICES ASSUME hups' = 0
              PROVE  \E c \in Startups : AudibleInv(c)'
  BY DEF Audible
<1>2. hups = 0 /\ hups' = hups
  BY <1>1 DEF TypeOK, HistoryTypeOK
<1>3. PICK c \in Startups : AudibleInv(c)
  BY <1>2 DEF Audible
<1>. USE DEF AudibleInv
<1>. c \in Configs /\ Wired(c)
  BY CalmConfig
<1>4. OnlyOnce(c)' /\ MainMoves(c) /\ Progress(c)' /\ VerifyMoves(c) /\ WindowMoves
  BY <1>2, <1>3, MovesInNext
<1>5. DeskChange
  BY DeskInNext
<1>6. LinkInv({c})'
  <2>1. HandRegs \intersect LinkRegs = {}
    BY DEF Calm, HandsOff, LinkRegs
  <2>2. cfg' \in [Thread -> {c}]
    BY <1>4 DEF OnlyOnce
  <2>. QED
    BY <1>3, <2>1, <2>2, SpeaksOnce, LinkStep
<1>7. StillToCome(c)' /\ LinksSet(c)' /\ SinglesFed(c)' /\ PairsFed(c)'
  BY <1>3, <1>4, <1>5, StillToComeStep, LinksSetStep, SinglesFedStep, PairsFedStep
<1>. QED
  BY <1>4, <1>6, <1>7

\* A device with its links set and its outputs fed is routed.
LEMMA RoutedWhenFed ==
  ASSUME NEW c, \A m \in Links(c) : dev[m.reg] = m.args,
         \A route \in ToSet(c.routes) : \A out \in ToSet(route.output) : Fed(route, out)
  PROVE  RoutedAs(c)
<1>. SUFFICES ASSUME NEW i \in DOMAIN c.routes
              PROVE  LET route == c.routes[i]  src == route.source[1]
                         level == MixMessages(route)[1].args[1]
                     IN  /\ \A m \in ToSet(LinkMessages(route)) : dev[m.reg] = m.args
                         /\ \A out \in ToSet(route.output) :
                              dev[Cell(out, route.kind, src)] = <<level>>
  BY DEF RoutedAs
<1>1. c.routes[i] \in ToSet(c.routes)
  BY DEF ToSet
<1>2. \A m \in ToSet(LinkMessages(c.routes[i])) : dev[m.reg] = m.args
  BY <1>1 DEF Links
<1>3. \A out \in ToSet(c.routes[i].output) : Fed(c.routes[i], out)
  BY <1>1
<1>. QED
  BY <1>2, <1>3 DEF Fed, Src, Level

LEMMA AudibleRouted ==
  ASSUME Calm, TypeOK, StartInv, Audible
  PROVE  VerifiedMeansAudible
<1>. SUFFICES ASSUME verdict = "verified", hups = 0
              PROVE  RoutedAs(cfg["verify"])
  BY DEF VerifiedMeansAudible
<1>1. PICK c \in Startups : AudibleInv(c)
  BY DEF Audible
<1>. USE DEF AudibleInv
<1>. c \in Configs /\ Wired(c)
  BY CalmConfig
<1>2. /\ cfg["verify"] = c /\ pc["verify"] \in {"done", "cut"} /\ reapplied /\ Trusted
      /\ pc["main"] \notin FirstApply
  BY <1>1 DEF OnlyOnce, Progress, Trusted, StartInv, VerifierAfterReady, Thread
<1>3. \A m \in Links(c) : dev[m.reg] = m.args
  BY <1>1, <1>2 DEF LinksSet, FirstApply
<1>4. \A route \in ToSet(c.routes) : \A out \in ToSet(route.output) : Fed(route, out)
  BY <1>1, <1>2 DEF SinglesFed, PairsFed, FirstApply
<1>. QED
  BY <1>2, <1>3, <1>4, RoutedWhenFed

\* "routing verified against device state" is true of the mix as well, which
\* no dump reports: on a desk that loses nothing and that nobody turns against
\* the routing, whatever the GUI, a crash and a stop get in between.
THEOREM AudibleWhenVerified == Calm => (Spec => []VerifiedMeansAudible)
<1>. SUFFICES ASSUME Calm PROVE Spec => []VerifiedMeansAudible
  OBVIOUS
<1>. DEFINE Inv == TypeOK /\ StartInv /\ PortDiscipline /\ Audible
<1>1. Init => Inv
  BY TypeInit, StartInit, PortInit, AudibleInit
<1>2. Inv /\ [Next]_vars => Inv'
  BY TypeStep, StartStep, PortStep, AudibleStep
<1>3. Inv => VerifiedMeansAudible
  BY AudibleRouted
<1>. QED
  BY <1>1, <1>2, <1>3, PTL DEF Spec

----------------------------------------------------------------------------
(* A reconcile that began after the verifier had ended: what its dump told *)
(* oscmix, and what its apply has done so far.                             *)

\* Since a dump was asked for, a wanted link that the device has is known to
\* oscmix, or the report that will tell it is still to come.
Synced(m) ==
  dev[m.reg] = m.args => Sure(m) \/ m \in ToSet(wire) \/ m.reg \in ToSet(dump)

Applying == pc["main"] \in FirstApply

\* A reconcile waits for READY, and lets the device keep no link and no cell.
OneAtATime ==
  /\ child = "starting" => pc["main"] = "boot"
  /\ pc["main"] \notin {"remix", "rewrite", "blindmix"}
  /\ pc["main"] = "boot" => ~ready
  /\ ~ready => /\ pc["main"] \in {"boot", "supervise", "join", "exit"} \union FirstApply
               /\ pc["main"] = "supervise" => child = "dead"
  /\ applied.alone =>
       /\ ready /\ pc["verify"] \in {"none", "done"}
       /\ Applying => /\ cfg["main"] = applied.config
                      /\ \A r \in skip["main"] : PolicyFor(applied.config, r) # PIN

\* It writes what its file says.
SaysItsFile ==
  Applying => \A i \in 1 .. Len(todo["main"]) : todo["main"][i] \in Plan(cfg["main"])

Dumped(C) ==
  child = "up" /\ (pc["main"] \in {"top", "recv", "judge"} \/ applied.alone) =>
    \A m \in LinksNeeded(C) : Synced(m)

LinksRewritten(c) ==
  \A m \in Links(c) :
    dev[m.reg] = m.args \/ (pc["main"] = "links" /\ m \in ToSet(todo["main"]))

MixRewritten(c) ==
  pc["main"] \notin {"links", "echo", "settle"} =>
    /\ \A m \in AwaitedOf[c] : Sure(m)
    /\ \A route \in ToSet(c.routes) : \A out \in ToSet(route.output) :
         Fed(route, out) \/ (pc["main"] = "mix" /\ Feeder(route, out) \in ToSet(todo["main"]))

Rewritten(c) ==
  /\ applied.config = c
  /\ applied.alone /\ child = "up" => LinksRewritten(c) /\ MixRewritten(c)

ReloadInv(C) ==
  /\ OneAtATime /\ SaysItsFile /\ Dumped(C)
  /\ \E c \in C : Rewritten(c)

LEMMA FurtherReports ==
  ASSUME DeskTypeOK, NEW w \in Report, wire' = wire \/ wire' = Append(wire, w)
  PROVE  \A m \in ToSet(wire) : m \in ToSet(wire')
<1>1. ToSet(Append(wire, w)) = ToSet(wire) \union {w}
  BY Appended DEF DeskTypeOK
<1>. QED
  BY <1>1

\* The last report of a wanted link that is taken leaves it known.
LEMMA KnownWhenDelivered ==
  ASSUME DeskTypeOK, NEW m \in LinkMessage, Steady(m), Deliver, m = Head(wire)
  PROVE  Sure(m)'
<1>1. /\ wire \in Seq(Report) /\ Len(wire) > 0 /\ m = wire[1] /\ Len(wire) \in Nat
      /\ view \in [LinkRegs -> Values] /\ m.reg \in LinkRegs
  BY DEF Deliver, DeskTypeOK, LinkMessage
<1>2. dev' = dev /\ wire' = Tail(wire) /\ view' = [view EXCEPT ![m.reg] = m.args]
  BY <1>1 DEF Deliver
<1>3. /\ dev[m.reg] = m.args
      /\ \A j \in 1 .. Len(wire) : wire[j].reg = m.reg => wire[j] = m
  BY <1>1, 1 \in 1 .. Len(wire) DEF Steady, ReportIsFinal
<1>4. \A i \in 1 .. Len(wire') : i + 1 \in 1 .. Len(wire) /\ wire'[i] = wire[i + 1]
  BY <1>1, <1>2
<1>. QED
  BY <1>1, <1>2, <1>3, <1>4 DEF Sure

LEMMA SyncedStep ==
  ASSUME TypeOK, HandRegs \intersect LinkRegs = {}, NEW m \in LinkMessage, Steady(m), Synced(m),
         \A t \in Thread : pc[t] \in Writing /\ todo[t] # <<>> =>
           Head(todo[t]) \in Sendable /\ (Head(todo[t]).reg = m.reg => Head(todo[t]) = m),
         m.reg \in ToSet(DumpOrder), DeskChange, child' = "up"
  PROVE  Synced(m)'
<1>. DeskTypeOK /\ m \in Report /\ m.reg \in Reg
  BY DEF TypeOK, LinkMessage, Report
<1>0. Sure(m) => Sure(m)'
  BY SteadyInDesk
<1>. SUFFICES ASSUME dev'[m.reg] = m.args
              PROVE  Sure(m)' \/ m \in ToSet(wire') \/ m.reg \in ToSet(dump')
  BY DEF Synced
<1>1. CASE ControlStep \/ BackendBinds
  BY <1>0, <1>1 DEF ControlStep, KeepsReports, BackendBinds, Synced
<1>2. CASE RefreshStep
  <2>1. dump' \in {dump, DumpOrder} /\ UNCHANGED <<dev, wire>>
    BY <1>2 DEF RefreshStep, PutRefresh
  <2>. QED
    BY <1>0, <2>1 DEF Synced
<1>3. ASSUME NEW t \in Thread, Sends(t)
      PROVE  Sure(m)' \/ m \in ToSet(wire') \/ m.reg \in ToSet(dump')
  <2>. DEFINE w == Head(todo[t])
  <2>1. /\ w \in Sendable /\ w \in Report /\ (w.reg = m.reg => w = m) /\ dump' = dump
        /\ UNCHANGED <<dev, wire>> \/ (dev' = Written(w) /\ wire' = Echoed(w))
    BY <1>3 DEF Sends, PutRegister, Sendable
  <2>. HIDE DEF w
  <2>2. wire' = wire \/ wire' = Append(wire, w)
    BY <2>1 DEF Echoed
  <2>3. CASE dev[m.reg] = m.args
    BY <1>0, <2>1, <2>2, <2>3, FurtherReports DEF Synced
  <2>4. CASE dev[m.reg] # m.args
    <3>1. w = m
      BY <2>1, <2>4, WrittenElsewhere
    <3>2. wire' = Append(wire, m)
      BY <2>1, <2>4, <3>1 DEF Echoed, LinkMessage
    <3>3. ToSet(Append(wire, m)) = ToSet(wire) \union {m}
      BY Appended DEF DeskTypeOK
    <3>. QED
      BY <3>2, <3>3
  <2>. QED
    BY <2>3, <2>4
<1>4. CASE DumpNext
  <2>1. /\ dump # <<>> /\ wire = <<>> /\ dump' = Tail(dump) /\ dev' = dev
        /\ wire' = <<Message(Head(dump), dev[Head(dump)])>>
    BY <1>4 DEF DumpNext
  <2>2. m \notin ToSet(wire)
    BY <2>1 DEF ToSet
  <2>3. m.reg \in ToSet(dump) => m.reg = Head(dump) \/ m.reg \in ToSet(Tail(dump))
    BY <2>1, HeadOrTail DEF DeskTypeOK
  <2>4. m = Message(m.reg, m.args)
    BY DEF Message, Report
  <2>5. Message(Head(dump), dev[Head(dump)]) \in ToSet(wire')
    BY <2>1 DEF ToSet
  <2>. QED
    BY <1>0, <2>1, <2>2, <2>3, <2>4, <2>5 DEF Synced
<1>5. CASE Deliver
  <2>1. wire # <<>> /\ wire' = Tail(wire) /\ UNCHANGED <<dev, dump>>
    BY <1>5 DEF Deliver
  <2>2. m \in ToSet(wire) => m = Head(wire) \/ m \in ToSet(Tail(wire))
    BY <2>1, HeadOrTail DEF DeskTypeOK
  <2>. QED
    BY <1>0, <1>5, <2>1, <2>2, KnownWhenDelivered DEF Synced
<1>6. ASSUME NEW r \in HandRegs, HandTurns(r)
      PROVE  Sure(m)' \/ m \in ToSet(wire') \/ m.reg \in ToSet(dump')
  <2>1. r \notin LinkRegs /\ r # m.reg
    BY DEF LinkMessage
  <2>2. PICK v \in FaderValues :
          dev' = [dev EXCEPT ![r] = v] /\ wire' = Echoed(Message(r, v))
    BY <1>6 DEF HandTurns
  <2>3. dev'[m.reg] = dev[m.reg] /\ UNCHANGED <<wire, dump>>
    BY <1>6, <2>1, <2>2 DEF HandTurns, Echoed, Message, DeskTypeOK
  <2>. QED
    BY <1>0, <2>3 DEF Synced
<1>. QED
  BY <1>1, <1>2, <1>3, <1>4, <1>5, <1>6 DEF DeskChange, LosesBackend

----------------------------------------------------------------------------
(* How the main thread moves through a reconcile.                          *)

\* The apply begins with what the read-back found ...
BeginsApply(c) ==
  /\ pc["main"] = "judge" /\ pc'["main"] = "links" /\ cfg["main"] = c
  /\ todo'["main"] = Without(LinksOf[c], Kept("main"))
  /\ pc["verify"] \in {"none", "done"} /\ KeepsReports

\* ... its barrier ends when it awaits nothing, has heard all or has waited ...
BarrierEnds(c) ==
  /\ pc'["main"] = "mix" /\ todo'["main"] = Without(MixesOf[c], skip["main"]) /\ KeepsReports
  /\ \/ pc["main"] = "links" /\ todo["main"] = <<>> /\ AwaitedOf[c] = {}
     \/ pc["main"] = "echo" /\ HeardOne({}, pending["main"])
     \/ pc["main"] \in {"echo", "settle"} /\ DeadlineFor(LinkRegs)

\* ... and nothing else begins a burst.
GoesOn(c) ==
  \/ pc'["main"] = pc["main"] /\ todo'["main"] = todo["main"]
  \/ pc'["main"] = pc["main"] /\ Sends("main") /\ todo'["main"] = Tail(todo["main"])
  \/ pc["main"] = "links" /\ todo["main"] = <<>> /\ pc'["main"] \in {"echo", "settle"}
  \/ BarrierEnds(c)
  \/ pc["main"] = "mix" /\ todo["main"] = <<>> /\ pc'["main"] \notin FirstApply
  \/ ~Applying /\ ~Applying'

\* Only the request for a dump opens a window.
OpensWindow ==
  pc'["main"] \in {"top", "recv", "judge"} =>
    pc["main"] \in {"top", "recv", "judge"} \/ (pc["main"] = "refresh" /\ PutRefresh)

SameApplied == applied'.alone = applied.alone /\ applied'.config = applied.config

BurstBegins ==
  Applying' => /\ cfg'["main"] = cfg["main"]
               /\ Applying \/ todo'["main"] \in BurstsOf(cfg["main"])

ReloadMoves ==
  /\ OneAtATime' /\ OpensWindow /\ BurstBegins
  /\ \/ SameApplied /\ (applied.alone => GoesOn(applied.config))
     \/ /\ ~applied'.alone \/ BeginsApply(applied'.config)
        /\ applied'.config = cfg["main"] /\ pc'["main"] = "links"

\* A step that is not the main thread's.
MainRests ==
  /\ pc'["main"] = pc["main"] /\ todo'["main"] = todo["main"] /\ skip'["main"] = skip["main"]
  /\ cfg'["main"] = cfg["main"] /\ UNCHANGED <<ready, applied>>
  /\ child' = "starting" => child = "starting"
  /\ child = "dead" => child' = "dead"
  /\ pc["verify"] \in {"none", "done"} => pc'["verify"] = pc["verify"]

LEMMA WhileMainRests ==
  ASSUME OneAtATime, MainRests
  PROVE  ReloadMoves
<1>1. OneAtATime'
  BY DEF OneAtATime, MainRests, Applying
<1>2. OpensWindow /\ BurstBegins
  BY DEF OpensWindow, BurstBegins, MainRests, Applying
<1>3. SameApplied /\ GoesOn(applied.config)
  BY DEF SameApplied, GoesOn, MainRests
<1>. QED
  BY <1>1, <1>2, <1>3 DEF ReloadMoves

LEMMA RestsInVerify ==
  ASSUME TypeOK, VerifyStep
  PROVE  MainRests
<1>. "main" \in Thread /\ "verify" \in Thread /\ "verify" # "main"
  BY DEF Thread
<1>. USE DEF TypeOK, ThreadTypeOK, MainRests, signalVars, history, deskVars
<1>1. CASE SendNext("verify")
  BY <1>1 DEF SendNext, Writing, PutRegister
<1>2. CASE ReachBarrier("verify")
  BY <1>2 DEF ReachBarrier, MixBurst, Burst, Goto, Bind
<1>3. CASE HearEcho("verify")
  BY <1>3 DEF HearEcho, MixBurst, Burst, Goto
<1>4. CASE EchoTimeout("verify") \/ Settled("verify")
  BY <1>4 DEF EchoTimeout, Settled, MixBurst, Burst, Goto
<1>5. CASE Listen("verify") \/ AwaitReport("verify") \/ NothingHeard("verify") \/ CloseWindow("verify")
  BY <1>5 DEF Listen, Bind, AwaitReport, NothingHeard, CloseWindow, Goto
<1>6. CASE RequestDump("verify")
  BY <1>6 DEF RequestDump, PutRefresh, Goto
<1>7. CASE HearReport("verify")
  BY <1>7 DEF HearReport, ObserveLinks, Burst, Goto
<1>8. CASE SettlingEnds \/ BlindDelayEnds \/ VerifyJudge \/ VerifyReport \/ VerifyBurstOut
  BY <1>8 DEF SettlingEnds, BlindDelayEnds, VerifyJudge, VerifyReport, VerifyBurstOut,
              ReapplyWithoutConfirmation, StartApply, VerifierEnds, Burst, Goto
<1>9. CASE VerifyBlind
  BY <1>9 DEF VerifyBlind, VerifierEnds, PutRefresh, Goto
<1>. QED
  BY <1>1, <1>2, <1>3, <1>4, <1>5, <1>6, <1>7, <1>8, <1>9
     DEF VerifyStep, Apply, Window, WindowStopped, WindowComplete, WindowDeadline

LEMMA RestsElsewhere ==
  ASSUME \/ StopAsked \/ HupAsked \/ UNCHANGED vars
         \/ Environment /\ UNCHANGED <<threadVars, verifyVars, signalVars>>
  PROVE  MainRests
<1>. USE DEF MainRests, threadVars, signalVars, deskVars, history
<1>1. CASE StopAsked \/ HupAsked \/ UNCHANGED vars
  BY <1>1 DEF StopAsked, HupAsked, vars
<1>2. CASE Environment /\ UNCHANGED <<threadVars, verifyVars, signalVars>>
  BY <1>2 DEF Environment, DeskStep, DumpNext, Deliver, BackendBinds, BackendDies, GuiOpens,
              GuiCloses, Hand, HandTurns
<1>. QED
  BY <1>1, <1>2

\* What is left to the device are faders and the like.
LEMMA KeptIsRemembered ==
  ASSUME NEW t
  PROVE  \A r \in Kept(t) : PolicyFor(cfg[t], r) # PIN
  BY DEF Kept, KeptByTheDevice

LEMMA MovesInApply ==
  ASSUME TypeOK, ~Garbled, OneAtATime, Apply("main")
  PROVE  ReloadMoves
<1>. "main" \in Thread /\ "verify" \in Thread /\ "verify" # "main"
  BY DEF Thread
<1>. USE DEF TypeOK, ThreadTypeOK, signalVars, history, deskVars, ReloadMoves, OneAtATime,
             OpensWindow, BurstBegins, SameApplied, GoesOn, FirstApply, Applying
<1>0. pc["main"] \in {"links", "mix", "echo", "settle"} /\ applied.alone => cfg["main"] = applied.config
  OBVIOUS
<1>1. CASE SendNext("main")
  <2>1. Sends("main") /\ pc' = pc /\ todo'["main"] = Tail(todo["main"])
    BY <1>1 DEF SendNext, Sends
  <2>2. pc["main"] \in {"links", "mix"}
    BY <1>1 DEF SendNext, Writing
  <2>. QED
    BY <1>1, <2>1, <2>2 DEF SendNext, PutRegister
<1>2. CASE ReachBarrier("main")
  <2>. USE DEF ReachBarrier, Bind, Goto, MixBurst, Burst
  <2>1. CASE pc'["main"] = "mix"
    <3>1. BarrierEnds(cfg["main"]) /\ todo'["main"] \in BurstsOf(cfg["main"])
      BY <1>2, <2>1, BurstsKnown DEF BarrierEnds, KeepsReports
    <3>. QED
      BY <1>0, <1>2, <2>1, <3>1
  <2>2. CASE pc'["main"] # "mix"
    BY <1>2, <2>2
  <2>. QED
    BY <2>1, <2>2
<1>3. CASE HearEcho("main")
  <2>. USE DEF HearEcho, Goto, MixBurst, Burst
  <2>1. CASE pending'["main"] = {}
    <3>1. BarrierEnds(cfg["main"]) /\ todo'["main"] \in BurstsOf(cfg["main"])
      BY <1>3, <2>1, BurstsKnown DEF BarrierEnds, KeepsReports, HeardOne
    <3>. QED
      BY <1>0, <1>3, <2>1, <3>1
  <2>2. CASE pending'["main"] # {}
    BY <1>3, <2>2
  <2>. QED
    BY <2>1, <2>2
<1>4. CASE EchoTimeout("main") \/ Settled("main")
  <2>. USE DEF EchoTimeout, Settled, BarrierOver, Goto, MixBurst, Burst
  <2>1. BarrierEnds(cfg["main"]) /\ todo'["main"] \in BurstsOf(cfg["main"])
    BY <1>4, BurstsKnown DEF BarrierEnds, KeepsReports
  <2>. QED
    BY <1>0, <1>4, <2>1
<1>. QED
  BY <1>1, <1>2, <1>3, <1>4 DEF Apply

LEMMA MovesInWindow ==
  ASSUME TypeOK, OneAtATime, Window("main")
  PROVE  ReloadMoves
<1>. "main" \in Thread /\ "verify" \in Thread /\ "verify" # "main"
  BY DEF Thread
<1>. USE DEF TypeOK, ThreadTypeOK, signalVars, history, deskVars, ReloadMoves, OneAtATime,
             OpensWindow, BurstBegins, SameApplied, GoesOn, FirstApply, Applying
<1>1. CASE Listen("main") \/ AwaitReport("main") \/ NothingHeard("main") \/ CloseWindow("main")
  BY <1>1 DEF Listen, Bind, AwaitReport, NothingHeard, CloseWindow, Goto
<1>2. CASE RequestDump("main")
  BY <1>2 DEF RequestDump, PutRefresh, Goto
<1>3. CASE HearReport("main")
  BY <1>3 DEF HearReport, Goto
<1>. QED
  BY <1>1, <1>2, <1>3 DEF Window, WindowStopped, WindowComplete, WindowDeadline

LEMMA MovesInMain ==
  ASSUME TypeOK, StartInv, ~Garbled, Prompt, OneAtATime, MainStep
  PROVE  ReloadMoves
<1>. "main" \in Thread /\ "verify" \in Thread /\ "verify" # "main"
  BY DEF Thread
<1>. USE DEF TypeOK, ThreadTypeOK, signalVars, history, deskVars, ReloadMoves, OneAtATime,
             OpensWindow, BurstBegins, SameApplied, GoesOn, FirstApply, Applying
<1>1. CASE Apply("main") \/ Window("main")
  BY <1>1, MovesInApply, MovesInWindow
<1>2. CASE BackendAwaited
  <2>1. Without(LinksOf[cfg["main"]], {}) \in BurstsOf(cfg["main"])
    BY BurstsKnown, {} \in SUBSET Reg
  <2>2. ~ready /\ child # "starting"
    BY <1>2 DEF BackendAwaited, StartInv, VerifierAfterReady
  <2>. QED
    BY <1>2, <2>1, <2>2 DEF BackendAwaited, StartApply, Burst, Goto
<1>3. CASE FirstApplyOut
  BY <1>3 DEF FirstApplyOut
<1>4. CASE ReloadApplyOut
  BY <1>4 DEF ReloadApplyOut, Goto
<1>5. CASE ChildWaited
  BY <1>5 DEF ChildWaited, Goto
<1>6. CASE PollReload \/ PollStop
  BY <1>6 DEF PollReload, PollStop, AtStopCheck, Goto
<1>7. CASE Escalate
  BY <1>7 DEF Escalate, AtStopCheck, Goto
<1>8. CASE ReadConfig
  BY <1>8 DEF ReadConfig, Goto
<1>9. CASE ReconcileRefused
  BY <1>9 DEF ReconcileRefused, Goto
<1>10. CASE ReconcileJudge
  <2>1. CASE ShouldStop("main")
    BY <1>10, <2>1 DEF ReconcileJudge, Goto
  <2>2. CASE ~ShouldStop("main")
    <3>1. /\ pc["main"] = "judge" /\ pc'["main"] = "links" /\ pc'["verify"] = pc["verify"]
          /\ todo'["main"] = Without(LinksOf[cfg["main"]], Kept("main"))
          /\ skip'["main"] = Kept("main")
          /\ applied' = Applied(cfg["main"], FALSE, pc["verify"] \in {"none", "done"})
          /\ UNCHANGED <<deskVars, cfg, ready>>
      BY <1>10, <2>2 DEF ReconcileJudge, StartApply, Burst, Goto
    <3>2. applied'.config = cfg["main"] /\ applied'.alone = (pc["verify"] \in {"none", "done"})
      BY <3>1 DEF Applied
    <3>3. todo'["main"] \in BurstsOf(cfg["main"])
      BY <3>1, BurstsKnown
    <3>4. ~applied'.alone \/ BeginsApply(applied'.config)
      BY <3>1, <3>2 DEF BeginsApply, KeepsReports
    <3>5. ready /\ \A r \in Kept("main") : PolicyFor(applied'.config, r) # PIN
      BY <3>1, <3>2, KeptIsRemembered
    <3>6. OneAtATime'
      BY <3>1, <3>2, <3>5
    <3>. QED
      BY <3>1, <3>2, <3>3, <3>4, <3>6 DEF Applied
  <2>. QED
    BY <2>1, <2>2
<1>11. CASE Exits
  BY <1>11 DEF Exits
<1>. QED
  BY <1>1, <1>2, <1>3, <1>4, <1>5, <1>6, <1>7, <1>8, <1>9, <1>10, <1>11 DEF MainStep

LEMMA ReloadMovesInNext ==
  ASSUME TypeOK, StartInv, ~Garbled, Prompt, OneAtATime, [Next]_vars
  PROVE  ReloadMoves
<1>1. CASE MainStep
  BY <1>1, MovesInMain
<1>2. CASE VerifyStep
  BY <1>2, RestsInVerify, WhileMainRests
<1>3. CASE ~MainStep /\ ~VerifyStep
  BY <1>3, RestsElsewhere, WhileMainRests DEF Next
<1>. QED
  BY <1>1, <1>2, <1>3

----------------------------------------------------------------------------
(* The parts of the invariant.                                             *)

LEMMA SaysItsFileStep ==
  ASSUME TypeOK, SaysItsFile, BurstBegins, TodoChange("main")
  PROVE  SaysItsFile'
<1>. "main" \in Thread /\ cfg["main"] \in Configs /\ todo["main"] \in Seq(Sendable)
  BY DEF Thread, TypeOK, ThreadTypeOK
<1>. SUFFICES ASSUME Applying', NEW i \in 1 .. Len(todo'["main"])
              PROVE  todo'["main"][i] \in Plan(cfg["main"])
  BY DEF SaysItsFile, BurstBegins
<1>1. CASE todo'["main"] \in BurstsOf(cfg["main"])
  BY <1>1, BurstsArePlanned
<1>2. CASE Applying /\ todo'["main"] = todo["main"]
  BY <1>2 DEF SaysItsFile
<1>3. CASE Applying /\ todo["main"] # <<>> /\ todo'["main"] = Tail(todo["main"])
  <2>1. i + 1 \in 1 .. Len(todo["main"]) /\ todo'["main"][i] = todo["main"][i + 1]
    BY <1>3
  <2>. QED
    BY <1>3, <2>1 DEF SaysItsFile
<1>. QED
  BY <1>1, <1>2, <1>3 DEF BurstBegins, TodoChange

LEMMA DumpedStep ==
  ASSUME CalmReloads, TypeOK, NEW C \in SUBSET Configs, OneVoice(C), LinkInv(C),
         OneAtATime, Dumped(C), ReloadMoves, DeskChange
  PROVE  Dumped(C)'
<1>. SUFFICES ASSUME child' = "up", pc'["main"] \in {"top", "recv", "judge"} \/ applied'.alone,
                     NEW m \in LinksNeeded(C)
              PROVE  Synced(m)'
  BY DEF Dumped
<1>1. m \in LinkMessage /\ Steady(m) /\ HandRegs \intersect LinkRegs = {}
  BY NeededAreLinks DEF LinkInv, CalmReloads, LinksStay
<1>2. m.reg \in ToSet(DumpOrder)
  <2>1. PICK d \in C : m \in AwaitedOf[d]
    BY DEF LinksNeeded
  <2>. QED
    BY <2>1 DEF CalmReloads
<1>3. \/ pc["main"] \in {"top", "recv", "judge"} \/ applied.alone
      \/ pc["main"] = "refresh" /\ PutRefresh
  BY DEF ReloadMoves, OpensWindow, SameApplied, BeginsApply
<1>4. child = "up"
  BY <1>3, WasUp DEF OneAtATime
<1>5. CASE pc["main"] = "refresh" /\ PutRefresh
  <2>1. dump' = DumpOrder
    BY <1>4, <1>5, NothingLost DEF CalmReloads, Calm
  <2>. QED
    BY <1>2, <2>1 DEF Synced
<1>6. CASE pc["main"] \in {"top", "recv", "judge"} \/ applied.alone
  <2>1. Synced(m)
    BY <1>4, <1>6 DEF Dumped
  <2>. QED
    BY <1>1, <1>2, <2>1, HeadsAgree, SyncedStep
<1>. QED
  BY <1>3, <1>5, <1>6

\* No link and no cell is left to the device.
LEMMA RoutesArePinned ==
  ASSUME CalmReloads, NEW c \in Configs, NEW r,
         (Len(r) = 4 /\ r[1] = "mix") \/ r[3] = "stereo"
  PROVE  PolicyFor(c, r) = PIN
<1>1. RegisterPolicy(r) = PIN
  BY DEF RegisterPolicy, PIN
<1>2. Len(r) = 3 => <<r[1], r[3]>> \notin DOMAIN c.policies
  BY DEF CalmReloads
<1>. QED
  BY <1>1, <1>2 DEF PolicyFor

LEMMA StillSent ==
  ASSUME NEW c \in Configs, NEW msgs \in {LinksOf[c], MixesOf[c]}, NEW s \in SUBSET Reg,
         NEW m \in ToSet(msgs), m.reg \notin s
  PROVE  m \in ToSet(Without(msgs, s))
<1>1. \A burst \in {LinksOf[c], MixesOf[c]} :
        ToSet(Without(burst, s)) = {w \in ToSet(burst) : w.reg \notin s}
  BY LeftAloneIsDropped
<1>. QED
  BY <1>1

LEMMA ReloadSends ==
  ASSUME CalmReloads, TypeOK, OneAtATime, SaysItsFile, applied.alone
  PROVE  /\ HandsOff /\ SendsOf(applied.config)
         /\ \A t \in Thread : Sends(t) /\ child = "up" => dev' = Written(Head(todo[t]))
<1>1. ASSUME NEW t \in Thread, Sends(t)
      PROVE  t = "main" /\ Head(todo[t]) \in Plan(applied.config)
  <2>1. t = "main" /\ Applying
    BY <1>1 DEF Sends, OneAtATime, Thread, Writing, Applying, FirstApply
  <2>2. todo["main"] # <<>> /\ todo["main"] \in Seq(Sendable)
    BY <1>1, <2>1 DEF Sends, TypeOK, ThreadTypeOK
  <2>3. Head(todo["main"]) = todo["main"][1] /\ 1 \in 1 .. Len(todo["main"])
    BY <2>2
  <2>. QED
    BY <2>1, <2>3 DEF SaysItsFile, OneAtATime
<1>. QED
  BY <1>1, NothingLost DEF CalmReloads, Calm, SendsOf, Sends

LEMMA LinksRewrittenStep ==
  ASSUME CalmReloads, TypeOK, NEW c \in Configs, OneAtATime, SaysItsFile,
         applied.alone, applied.config = c, child = "up", LinksRewritten(c),
         GoesOn(c), DeskChange
  PROVE  LinksRewritten(c)'
<1>. SUFFICES ASSUME NEW m \in Links(c)
              PROVE  dev'[m.reg] = m.args \/ (pc'["main"] = "links" /\ m \in ToSet(todo'["main"]))
  BY DEF LinksRewritten
<1>. "main" \in Thread /\ Wired(c)
  BY DEF Thread, CalmReloads
<1>1. CASE dev[m.reg] = m.args
  BY <1>1, LinkKept, ReloadSends
<1>2. CASE pc["main"] = "links" /\ m \in ToSet(todo["main"])
  <2>1. todo["main"] # <<>> /\ todo["main"] \in Seq(Sendable)
    BY <1>2 DEF ToSet, TypeOK, ThreadTypeOK
  <2>2. m = Head(todo["main"]) \/ m \in ToSet(Tail(todo["main"]))
    BY <1>2, <2>1, HeadOrTail
  <2>3. CASE pc'["main"] = pc["main"] /\ todo'["main"] = todo["main"]
    BY <1>2, <2>3
  <2>4. CASE pc'["main"] = pc["main"] /\ Sends("main") /\ todo'["main"] = Tail(todo["main"])
    BY <1>2, <2>2, <2>4, LinkKept, ReloadSends
  <2>. QED
    BY <1>2, <2>1, <2>3, <2>4 DEF GoesOn, BarrierEnds, Applying, FirstApply
<1>. QED
  BY <1>1, <1>2 DEF LinksRewritten

LEMMA LinksBegun ==
  ASSUME CalmReloads, TypeOK, NEW c \in Configs, BeginsApply(c)
  PROVE  LinksRewritten(c)'
<1>. SUFFICES ASSUME NEW m \in Links(c) PROVE m \in ToSet(todo'["main"])
  BY DEF LinksRewritten, BeginsApply
<1>. "main" \in Thread /\ Wired(c)
  BY DEF Thread, CalmReloads
<1>1. m \in ToSet(LinksOf[c]) /\ m.reg[3] = "stereo"
  BY LinkFacts
<1>2. m.reg \notin Kept("main") /\ Kept("main") \in SUBSET Reg
  BY <1>1, RoutesArePinned, KeptIsRemembered, BurstsTyped DEF BeginsApply, TypeOK
<1>. QED
  BY <1>1, <1>2, StillSent DEF BeginsApply

LEMMA SureAtBarrier ==
  ASSUME CalmReloads, TypeOK, NEW C \in SUBSET Configs, LinkInv(C), NEW c \in C,
         OneAtATime, Dumped(C), applied.alone, applied.config = c, child = "up",
         LinksRewritten(c), BarrierEnds(c), NEW m \in AwaitedOf[c]
  PROVE  Sure(m)
<1>. "main" \in Thread /\ Wired(c) /\ c \in Configs
  BY DEF Thread, CalmReloads
<1>1. cfg["main"] = c /\ m \in LinksNeeded(C) /\ m \in LinkMessage
  BY NeededAreLinks DEF OneAtATime, BarrierEnds, Applying, FirstApply, LinksNeeded
<1>2. CASE pc["main"] = "echo" /\ HeardOne({}, pending["main"])
  <2>1. m \notin pending["main"] => Sure(m)
    BY <1>1, <1>2 DEF LinkInv, TickedOffIsSure
  <2>. QED
    BY <1>1, <1>2, <2>1, TickedOff DEF TypeOK
<1>3. CASE pc["main"] \in {"echo", "settle"} /\ DeadlineFor(LinkRegs)
  <2>1. dev[m.reg] = m.args
    BY <1>3, AwaitedFacts DEF LinksRewritten
  <2>2. Synced(m)
    BY <1>1 DEF Dumped
  <2>3. m.reg \in LinkRegs \ Late
    BY <1>1 DEF CalmReloads, Calm, LinkMessage
  <2>4. m.reg \notin ToSet(dump) /\ m \notin ToSet(wire \o inbox)
    BY <1>3, <2>3 DEF DeadlineFor
  <2>5. ToSet(wire \o inbox) = ToSet(wire) \union ToSet(inbox)
    BY ConcatRange DEF TypeOK, DeskTypeOK
  <2>. QED
    BY <2>1, <2>2, <2>4, <2>5 DEF Synced
<1>. QED
  BY <1>2, <1>3 DEF BarrierEnds

LEMMA LinksSeen ==
  ASSUME NEW c \in Configs, Wired(c), \A m \in AwaitedOf[c] : Sure(m),
         NEW route \in ToSet(c.routes)
  PROVE  LinkSeen(route)
<1>1. SUFFICES ASSUME IsPair(route)
               PROVE  view[Stereo("output", route.output[1])] = <<IF route.stereo THEN 1 ELSE 0>>
  BY DEF LinkSeen
<1>. DEFINE m == Message(Stereo("output", route.output[1]), <<IF route.stereo THEN 1 ELSE 0>>)
<1>2. m \in AwaitedOf[c]
  BY <1>1, PairIsAwaited
<1>3. view[m.reg] = m.args
  BY <1>2 DEF Sure
<1>. QED
  BY <1>3 DEF Message

LEMMA MixRewrittenStep ==
  ASSUME CalmReloads, TypeOK, NEW C \in SUBSET Configs, OneVoice(C), LinkInv(C), NEW c \in C,
         OneAtATime, SaysItsFile, Dumped(C), applied.alone, applied.config = c, child = "up",
         LinksRewritten(c), MixRewritten(c), GoesOn(c), DeskChange
  PROVE  MixRewritten(c)'
<1>. SUFFICES ASSUME pc'["main"] \notin {"links", "echo", "settle"}
              PROVE  MixRewritten(c)'
  BY DEF MixRewritten
<1>. "main" \in Thread /\ Wired(c) /\ c \in Configs
  BY DEF Thread, CalmReloads
<1>1. CASE BarrierEnds(c)
  <2>1. \A m \in AwaitedOf[c] : Sure(m)'
    BY <1>1, SureAtBarrier DEF BarrierEnds, KeepsReports, Sure
  <2>2. ASSUME NEW route \in ToSet(c.routes), NEW out \in ToSet(route.output)
        PROVE  Feeder(route, out) \in ToSet(todo'["main"])
    <3>1. Feeder(route, out) \in ToSet(MixesOf[c])
      BY FeedersPlanned
    <3>2. Len(Feeder(route, out).reg) = 4 /\ Feeder(route, out).reg[1] = "mix"
      BY DEF Feeder, Message, Cell
    <3>3. PolicyFor(c, Feeder(route, out).reg) = PIN
      BY <3>2, RoutesArePinned
    <3>4. Feeder(route, out).reg \notin skip["main"] /\ skip["main"] \in SUBSET Reg
      BY <1>1, <3>3 DEF OneAtATime, BarrierEnds, Applying, FirstApply, TypeOK, ThreadTypeOK
    <3>. QED
      BY <1>1, <3>1, <3>4, StillSent DEF BarrierEnds
  <2>. QED
    BY <1>1, <2>1, <2>2 DEF MixRewritten, BarrierEnds
<1>2. CASE pc["main"] \notin {"links", "echo", "settle"}
  <2>1. /\ \A m \in AwaitedOf[c] : Sure(m)
        /\ \A route \in ToSet(c.routes) : \A out \in ToSet(route.output) :
             Fed(route, out) \/ (pc["main"] = "mix" /\ Feeder(route, out) \in ToSet(todo["main"]))
    BY <1>2 DEF MixRewritten
  <2>2. ASSUME NEW m \in AwaitedOf[c] PROVE Sure(m)'
    <3>1. m \in LinksNeeded(C) /\ m \in LinkMessage /\ HandRegs \intersect LinkRegs = {}
      BY NeededAreLinks DEF LinksNeeded, CalmReloads, LinksStay
    <3>2. DeskTypeOK /\ Steady(m) /\ Sure(m)
      BY <2>1, <3>1 DEF LinkInv, TypeOK
    <3>. QED
      BY <3>1, <3>2, HeadsAgree, SteadyInDesk
  <2>3. ASSUME NEW route \in ToSet(c.routes), NEW out \in ToSet(route.output)
        PROVE  \/ Fed(route, out)'
               \/ pc'["main"] = "mix" /\ Feeder(route, out) \in ToSet(todo'["main"])
    <3>1. LinkSeen(route)
      BY <2>1, LinksSeen
    <3>2. CASE Fed(route, out)
      BY <3>1, <3>2, CellKept, ReloadSends
    <3>3. CASE pc["main"] = "mix" /\ Feeder(route, out) \in ToSet(todo["main"])
      <4>1. todo["main"] # <<>> /\ todo["main"] \in Seq(Sendable)
        BY <3>3 DEF ToSet, TypeOK, ThreadTypeOK
      <4>2. \/ Feeder(route, out) = Head(todo["main"])
            \/ Feeder(route, out) \in ToSet(Tail(todo["main"]))
        BY <3>3, <4>1, HeadOrTail
      <4>3. CASE pc'["main"] = pc["main"] /\ todo'["main"] = todo["main"]
        BY <3>3, <4>3
      <4>4. CASE pc'["main"] = pc["main"] /\ Sends("main") /\ todo'["main"] = Tail(todo["main"])
        BY <3>1, <3>3, <4>2, <4>4, CellKept, ReloadSends
      <4>. QED
        BY <3>3, <4>1, <4>3, <4>4 DEF GoesOn, BarrierEnds, Applying, FirstApply
    <3>. QED
      BY <2>1, <3>2, <3>3
  <2>. QED
    BY <2>2, <2>3 DEF MixRewritten
<1>. QED
  BY <1>1, <1>2 DEF GoesOn, Applying, FirstApply

LEMMA RewrittenStep ==
  ASSUME CalmReloads, TypeOK, NEW C \in SUBSET Configs, OneVoice(C), LinkInv(C), NEW c \in C,
         OneAtATime, SaysItsFile, Dumped(C), Rewritten(c), ReloadMoves, DeskChange
  PROVE  \E d \in C : Rewritten(d)'
<1>. "main" \in Thread /\ cfg["main"] \in C
  BY DEF Thread, LinkInv
<1>1. CASE SameApplied /\ (applied.alone => GoesOn(applied.config))
  <2>1. SUFFICES ASSUME applied'.alone, child' = "up"
                 PROVE  LinksRewritten(c)' /\ MixRewritten(c)'
    BY <1>1 DEF SameApplied, Rewritten
  <2>2. applied.alone /\ applied.config = c /\ GoesOn(c)
    BY <1>1, <2>1 DEF SameApplied, Rewritten
  <2>3. child = "up"
    BY <2>1, <2>2, WasUp DEF OneAtATime
  <2>4. LinksRewritten(c) /\ MixRewritten(c)
    BY <2>2, <2>3 DEF Rewritten
  <2>. QED
    BY <2>2, <2>3, <2>4, LinksRewrittenStep, MixRewrittenStep
<1>2. ASSUME ~applied'.alone \/ BeginsApply(applied'.config),
             applied'.config = cfg["main"], pc'["main"] = "links"
      PROVE  \E d \in C : Rewritten(d)'
  <2>1. PICK d \in C : d = cfg["main"]
    OBVIOUS
  <2>2. applied'.alone => LinksRewritten(d)'
    BY <1>2, <2>1, LinksBegun
  <2>3. MixRewritten(d)'
    BY <1>2 DEF MixRewritten
  <2>. QED
    BY <1>2, <2>1, <2>2, <2>3 DEF Rewritten
<1>. QED
  BY <1>1, <1>2 DEF ReloadMoves

----------------------------------------------------------------------------
(* A reconcile keeps to the files its session can reach.                   *)

Reloaded ==
  \E c \in Startups : Keeps(c) /\ LinkInv(Reachable(c)) /\ ReloadInv(Reachable(c))

LEMMA ReloadInit == Init => Reloaded
<1>. SUFFICES ASSUME Init PROVE Reloaded
  OBVIOUS
<1>1. PICK c \in Startups : Keeps(c) /\ LinkInv(Reachable(c))
  BY LinksKnownInit DEF LinksKnown
<1>2. file \in Reachable(c)
  BY <1>1 DEF Init, LinkInv, Thread
<1>3. applied = Applied(file, FALSE, FALSE) /\ pc["main"] = "boot" /\ ~ready
  BY DEF Init, Thread
<1>4. OneAtATime /\ SaysItsFile /\ Dumped(Reachable(c)) /\ Rewritten(file)
  BY <1>3 DEF OneAtATime, SaysItsFile, Dumped, Rewritten, Applied, Applying, FirstApply
<1>. QED
  BY <1>1, <1>2, <1>4 DEF Reloaded, ReloadInv

LEMMA ReloadStep ==
  ASSUME CalmReloads, TypeOK, StartInv, Reloaded, [Next]_vars
  PROVE  Reloaded'
<1>1. PICK c \in Startups : Keeps(c) /\ LinkInv(Reachable(c)) /\ ReloadInv(Reachable(c))
  BY DEF Reloaded
<1>. DEFINE C == Reachable(c)
<1>2. C \in SUBSET Configs /\ OneVoice(C) /\ HandRegs \intersect LinkRegs = {}
  BY ReachableConfigs DEF CalmReloads, LinksStay, OneVoice
<1>3. DeskChange /\ ThreadChange /\ TodoChange("main")
  BY DeskInNext, ThreadsInNext DEF ThreadChange, Thread, TypeOK
<1>4. cfg' \in [Thread -> C]
  BY <1>1, <1>3 DEF ThreadChange, Keeps, LinkInv
<1>5. Keeps(c)'
  BY <1>1, FileInNext DEF Keeps, Reachable
<1>6. LinkInv(C)'
  BY <1>1, <1>2, <1>4, LinkStep
<1>7. PICK d \in C : Rewritten(d)
  BY <1>1 DEF ReloadInv
<1>8. OneAtATime /\ SaysItsFile /\ Dumped(C)
  BY <1>1 DEF ReloadInv
<1>9. ReloadMoves
  BY <1>8, ReloadMovesInNext DEF CalmReloads, Calm
<1>10. OneAtATime' /\ SaysItsFile'
  BY <1>3, <1>8, <1>9, SaysItsFileStep DEF ReloadMoves
<1>11. Dumped(C)'
  BY <1>1, <1>2, <1>3, <1>8, <1>9, DumpedStep
<1>12. \E e \in C : Rewritten(e)'
  BY <1>1, <1>2, <1>3, <1>7, <1>8, <1>9, RewrittenStep
<1>13. ReloadInv(C)'
  BY <1>10, <1>11, <1>12 DEF ReloadInv
<1>. QED
  BY <1>5, <1>6, <1>13 DEF Reloaded

LEMMA ReloadedIsRouted ==
  ASSUME Reloaded
  PROVE  ReloadAloneWins
<1>. SUFFICES ASSUME applied.alone, Quiet, child = "up"
              PROVE  RoutedAs(applied.config)
  BY DEF ReloadAloneWins
<1>1. PICK c : Rewritten(c)
  BY DEF Reloaded, ReloadInv
<1>2. applied.config = c /\ LinksRewritten(c) /\ MixRewritten(c)
  BY <1>1 DEF Rewritten
<1>3. pc["main"] \notin FirstApply
  BY DEF Quiet, FirstApply
<1>. QED
  BY <1>2, <1>3, RoutedWhenFed DEF LinksRewritten, MixRewritten, FirstApply

\* A reload that no verifier disturbs leaves the device routed as the file
\* said, whatever was routed before, whatever the verifier of the start left
\* behind, and whether the barrier was ended by reports or by its timeout.
THEOREM ReloadRouted == CalmReloads => (Spec => []ReloadAloneWins)
<1>. SUFFICES ASSUME CalmReloads PROVE Spec => []ReloadAloneWins
  OBVIOUS
<1>. DEFINE Inv == TypeOK /\ StartInv /\ Reloaded
<1>1. Init => Inv
  BY TypeInit, StartInit, ReloadInit
<1>2. Inv /\ [Next]_vars => Inv'
  BY TypeStep, StartStep, ReloadStep
<1>3. Inv => ReloadAloneWins
  BY ReloadedIsRouted
<1>. QED
  BY <1>1, <1>2, <1>3, PTL DEF Spec

=============================================================================
