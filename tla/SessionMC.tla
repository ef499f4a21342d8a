------------------------------ MODULE SessionMC ------------------------------
(***************************************************************************)
(* Small instances of Session for TLC: one output pair fed from one        *)
(* playback pair, with the configurations and device states the runs name. *)
(***************************************************************************)
EXTENDS SessionProperties

Route(level, stereo, volume) ==
  [kind |-> "playback", source |-> <<1, 2>>, output |-> <<1, 2>>,
   level |-> level, volume |-> volume, stereo |-> stereo]

Config(routes, channels) ==
  [routes |-> routes, channels |-> channels, policies |-> <<>>]

Fader  == Volume(1)
Link   == Stereo("output", 1)
Source == Stereo("playback", 1)
Left   == Cell(1, "playback", 1)
Right  == Cell(2, "playback", 1)

Fader2 == Volume(2)

MCReg       == {Source, Link, Fader, Left, Right}
MCDumpOrder == <<Source, Fader, Link>>
MCValues    == {Off, <<-3>>, <<0>>, <<1>>, <<6>>, <<-3, 0>>, <<0, 0>>, <<6, -100>>, <<6, 100>>,
                <<-9>>, <<-20>>}

\* With the second fader of the pair, which a route volume writes as well.
WideReg       == MCReg \union {Fader2}
WideDumpOrder == Append(MCDumpOrder, Fader2)

FaderAt(v) == <<Message(Fader, <<v>>)>>

\* A linked pair, an unlinked pair, and an edit of the first with another
\* level and another value for the remembered fader of its [output:1] section.
LinkedConfig   == Config(<<Route(-3, TRUE, NoVolume)>>, FaderAt(-9))
UnlinkedConfig == Config(<<Route(0, FALSE, NoVolume)>>, FaderAt(-9))
LouderConfig   == Config(<<Route(0, TRUE, NoVolume)>>, FaderAt(-20))
\* The fader as the volume of the route.
VolumeConfig   == Config(<<Route(-3, TRUE, -9)>>, <<>>)
\* One output of the pair only: no link, hence no barrier and no re-apply.
MonoConfig     == Config(<<[Route(-3, TRUE, NoVolume)
                              EXCEPT !.source = <<1>>, !.output = <<1>>]>>, FaderAt(-9))
EmptyConfig    == Config(<<>>, <<>>)

CalmStartups   == {LinkedConfig, UnlinkedConfig, MonoConfig, EmptyConfig}
RoutedStartups == {LinkedConfig, UnlinkedConfig}
LinkedStartup  == {LinkedConfig}
VolumeStartup  == {VolumeConfig}
NoEdits        == {}
LouderEdits    == {LouderConfig, Broken}

\* A desk nobody has routed yet, its pair linked or not, its fader at f.
DeskWith(l, f) == [r \in Reg |-> CASE r = Source      -> <<0>>
                                   [] r = Link        -> <<l>>
                                   [] r = Fader       -> <<f>>
                                   [] r[3] = "volume" -> <<-9>>
                                   [] OTHER           -> Off]
FreshDevs   == {DeskWith(l, f) : l \in {0, 1}, f \in {-9, -20}}
EitherDevs  == {DeskWith(l, -9) : l \in {0, 1}}
UnlinkedDev == {DeskWith(0, -9)}
HandFaders  == {<<-9>>, <<-20>>}
FaderOnly   == {Fader}
LinkOnly    == {Link}
Nothing     == {}

\* What the theorems about the link barrier, the mix, the reload and the
\* remembered registers suppose.
ASSUME LinksStayHere == LinksStay
ASSUME CalmHere == MaxDrops = 0 /\ Prompt /\ Late = {} => Calm
ASSUME CalmReloadsHere == MaxDrops = 0 /\ Prompt /\ Late = {} /\ ~Garbled => CalmReloads
ASSUME KeepsWhatItReadsHere ==
  MaxDrops = 0 /\ Prompt /\ Late = {} /\ VolumeConfig \notin Configs => KeepsWhatItReads

=============================================================================
