---------------------------- MODULE ConfigLoadMC ----------------------------
(***************************************************************************)
(* Small files for ConfigLoad: two modelled devices, a small one with a    *)
(* register table and a larger one without, as the UCX II and the 802 are. *)
(***************************************************************************)
EXTENDS ConfigLoad

Span(n) == [k \in {"playback", "input", "output"} |-> 1 .. n]

MCModels ==
  [ucx2 |-> [channels |-> Span(4),
             flat     |-> {<<"output", "volume", c>> : c \in 1 .. 4},
             globals  |-> {<<"echo", "enabled">>},
             nested   |-> {<<"eq", "input", "enabled", c>> : c \in 1 .. 4},
             families |-> {<<"eq", "input">>, <<"roomeq", "output">>}],
   ff802 |-> [channels |-> Span(6), flat |-> {}, globals |-> {}, nested |-> {},
              families |-> {}]]

DeviceSection(d, o) == [name |-> <<"device">>, kind |-> "device", ok |-> o, device |-> d]
OscSection(p)       == [name |-> <<"osc">>, kind |-> "osc", ok |-> p # 0, port |-> p]
Unknown             == [name |-> <<"lights">>, kind |-> "unknown", ok |-> TRUE]
PinSection(o)       == [name |-> <<"pin">>, kind |-> "pin", ok |-> TRUE, family |-> "output",
                        option |-> o, policy |-> "pin"]
EchoSection(o)      == [name |-> <<"echo">>, kind |-> "global", ok |-> TRUE, family |-> "echo",
                        option |-> o, value |-> 1]
ChannelSection(c, o) ==
  [name |-> <<"output", c>>, kind |-> "channel", ok |-> TRUE, family |-> "output",
   channel |-> c, option |-> o, value |-> -9]
NestedSection(sub, family, c) ==
  [name |-> <<sub, family, c>>, kind |-> "nested", ok |-> TRUE, sub |-> sub,
   family |-> family, channel |-> c, option |-> "enabled", value |-> 1]
RouteSection(n, playback, input, output, volume, stereo) ==
  [name |-> <<"route", n>>, kind |-> "route", ok |-> TRUE, playback |-> playback,
   input |-> input, output |-> output, level |-> 0, volume |-> volume, stereo |-> stereo]

Main     == RouteSection("main", <<1, 2>>, <<>>, <<1, 2>>, NoVolume, TRUE)
Split    == RouteSection("split", <<3, 4>>, <<>>, <<1, 2>>, NoVolume, FALSE)
Wide     == RouteSection("wide", <<1, 2>>, <<>>, <<5, 6>>, NoVolume, TRUE)
Crossed  == RouteSection("crossed", <<3, 4>>, <<>>, <<1, 3>>, NoVolume, FALSE)
Monitor  == RouteSection("monitor", <<>>, <<3>>, <<4>>, NoVolume, TRUE)
TwoFaced == RouteSection("two", <<1>>, <<1>>, <<1>>, NoVolume, TRUE)
Uneven   == RouteSection("uneven", <<1>>, <<>>, <<1, 2>>, NoVolume, TRUE)
Outside  == RouteSection("out", <<1>>, <<>>, <<9>>, NoVolume, TRUE)

Sections ==
  {DeviceSection("ff802", TRUE), DeviceSection("other", TRUE), DeviceSection("ucx2", FALSE),
   OscSection(1), OscSection(0), Unknown, PinSection("volume"), PinSection("volumes"),
   EchoSection("enabled"), EchoSection("enable"), ChannelSection(1, "volume"),
   ChannelSection(3, "volume"), ChannelSection(6, "volume"), ChannelSection(2, "volumes"),
   NestedSection("eq", "input", 1), NestedSection("eq", "input", 6),
   NestedSection("roomeq", "output", 1),
   Main, Split, Crossed, Wide, Monitor, TwoFaced, Uneven, Outside}

\* Every file of up to three sections, in every order and with repeats.
Files == UNION {[1 .. n -> Sections] : n \in 0 .. 3}

\* Profiles beside a main file that names the machine or does not.
MainFiles ==
  {<<>>, <<DeviceSection("ff802", TRUE)>>, <<DeviceSection("other", TRUE), OscSection(1)>>,
   <<OscSection(1), Main>>, <<TwoFaced>>}
Profiles == UNION {[1 .. n -> Sections] : n \in 0 .. 2}

MCRequests == {<<f>> : f \in Files} \union {<<p, m>> : p \in Profiles, m \in MainFiles}

ASSUME DefaultKnowsAllHere == DefaultKnowsAll

=============================================================================
