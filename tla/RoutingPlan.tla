---------------------------- MODULE RoutingPlan ----------------------------
(***************************************************************************)
(* What a configuration asks the device for, and in which order it is put  *)
(* on the wire: reconcile.py (link_messages, mix_messages, desired, plan)  *)
(* and the two projections of it that routing.py writes (output_link_state,*)
(* send_mix).  Pure operators, no state.                                   *)
(*                                                                         *)
(* A register is a tuple such as <<"output", 1, "stereo">>, standing for   *)
(* the OSC path /output/1/stereo; a message carries the tuple of OSC       *)
(* arguments.  Strings, OSC type tags and dB quantisation are left out: a  *)
(* level is an integer and "equal within the tolerance" is equality.       *)
(***************************************************************************)
EXTENDS Integers, Sequences, SequencesExt

CONSTANT NoVolume            \* Route.volume is None

UnlinkedGainOffset == 6      \* constants.UNLINKED_GAIN_OFFSET

Stereo(kind, ch)    == <<kind, ch, "stereo">>
Volume(out)         == <<"output", out, "volume">>
Cell(out, kind, ch) == <<"mix", out, kind, ch>>

Message(r, a) == [reg |-> r, args |-> a]

----------------------------------------------------------------------------
(* One route: [kind, source, output, level, volume, stereo].               *)

\* The links a pair route needs before its mix may be written.
LinkMessages(route) ==
  IF Len(route.output) # 2 THEN <<>>
  ELSE << Message(Stereo(route.kind, route.source[1]), <<1>>),
          Message(Stereo("output", route.output[1]),
                  <<IF route.stereo THEN 1 ELSE 0>>) >>

Min0(level) == IF level < 0 THEN level ELSE 0

VolumeMessages(route) ==
  IF route.volume = NoVolume THEN <<>>
  ELSE [i \in DOMAIN route.output |->
          Message(Volume(route.output[i]), <<route.volume>>)]

\* A linked pair or a mono route is one centred cell; an unlinked pair is
\* two cells panned hard to their side, raised by the offset.
MixMessages(route) ==
  LET src == route.source[1]
      At(i, level, pan) ==
        Message(Cell(route.output[i], route.kind, src), <<level, pan>>)
      raised == Min0(route.level) + UnlinkedGainOffset
  IN  (IF Len(route.output) = 2 /\ ~route.stereo
       THEN << At(1, raised, -100), At(2, raised, 100) >>
       ELSE << At(1, route.level, 0) >>) \o VolumeMessages(route)

----------------------------------------------------------------------------
(* All routes of a configuration, in file order.                           *)

AllLinks(config) == FlattenSeq([i \in DOMAIN config.routes |-> LinkMessages(config.routes[i])])
AllMixes(config) == FlattenSeq([i \in DOMAIN config.routes |-> MixMessages(config.routes[i])])

\* A dictionary filled from a sequence of messages: each register once, at
\* the position of its first message and with the arguments of its last.
Recorded(seen, m) ==
  LET same == {i \in DOMAIN seen : seen[i].reg = m.reg}
  IN  IF same = {} THEN Append(seen, m)
      ELSE [seen EXCEPT ![CHOOSE i \in same : TRUE] = m]

Deduplicated(msgs) == FoldLeft(Recorded, <<>>, msgs)

\* The writes of an apply, in its two bursts.  The channel and global
\* sections follow the mix in the second burst and are not deduplicated.
PlannedLinks(config) == Deduplicated(AllLinks(config))
PlannedMixes(config) == Deduplicated(AllMixes(config)) \o config.channels

Desired(config) == PlannedLinks(config) \o PlannedMixes(config)

\* expected_registers: the same sequence read as a dictionary, that is the
\* last message about each register.
ExpectedRegisters(config) ==
  LET all == Desired(config)
  IN  {all[i] : i \in {i \in DOMAIN all :
                         \A j \in DOMAIN all : j > i => all[j].reg # all[i].reg}}

\* apply_routing leaves the registers in skip alone.
Without(msgs, skip) ==
  FlattenSeq([i \in DOMAIN msgs |-> IF msgs[i].reg \in skip THEN <<>> ELSE << msgs[i] >>])

\* The /output/<n>/stereo reports an apply waits for, as expected messages;
\* the last route that names an output decides its value.
OutputLinkState(config) ==
  {m \in ToSet(PlannedLinks(config)) : m.reg[1] = "output"}

\* send_mix: every mix and volume write of every route, repeats included,
\* and nothing of the channel sections.
SendMixMessages(config) == AllMixes(config)

----------------------------------------------------------------------------
(* The two checks of a whole configuration (config.py).                    *)

\* Every channel of a route exists, where the device has an opinion.
ChannelsExist(routes, device) ==
  \A r \in ToSet(routes) :
    \A use \in {<<r.kind, r.source>>, <<"output", r.output>>} :
      device.channels[use[1]] # {} => ToSet(use[2]) \subseteq device.channels[use[1]]

\* bug: the last route decides, and nobody is told.
AnyLinkWillDo(routes) == TRUE

\* Two routes to the same output pair agree on its link.
LinksAgree(routes) ==
  \A r, q \in ToSet(routes) :
    Len(r.output) = 2 /\ r.output = q.output => r.stereo = q.stereo

=============================================================================
