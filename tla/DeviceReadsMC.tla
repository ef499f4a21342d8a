---------------------------- MODULE DeviceReadsMC ----------------------------
(* Small desks for DeviceReads: four inputs, four outputs and a software    *)
(* channel pair, built from one or two routes of every shape.               *)
EXTENDS DeviceReads

Ch == 1 .. 4

Gain    == <<"input", 3, "gain">>              \* pinned
MainOut == <<"controlroom", "main", "mainout">> \* pinned, an enum

Links    == {Stereo(k, c) : k \in {"input", "output"}, c \in Ch}
              \union {Stereo("playback", 1)}
Settings == {Gain, MainOut} \union {Volume(o) : o \in {1, 2}}
Cells    == {Cell(o, "input", s) : o \in Ch, s \in Ch}
Software == {Cell(o, "playback", 1) : o \in {1, 2}}

DumpBursts == << Links, Settings, Cells >>

\* A device that came up with no main output, which has no name there.
BlankDesk ==
  [r \in Links \union Settings \union Cells \union Software |->
     CASE r \in Links -> <<0>>
       [] r = MainOut -> <<-1>>
       [] r \in Settings -> <<0>>
       [] OTHER -> <<Silence, 0>>]

EnumNames   == MainOut :> {<<0>>, <<1>>}
AllKinds    == [k \in {"input", "output"} |-> Ch] @@ [k \in {"playback"} |-> {1, 2}]
PinnedRegs  == {Gain, MainOut}
SettableRegs == Settings

R(kind, source, output, level, volume, stereo) ==
  [kind |-> kind, source |-> source, output |-> output, level |-> level,
   volume |-> volume, stereo |-> stereo]

Shapes ==
  << R("input", <<1, 2>>, <<1, 2>>, -6, NoVolume, TRUE),
     R("input", <<1, 2>>, <<1, 2>>, -6, NoVolume, FALSE),
     R("input", <<1, 2>>, <<3, 4>>, 3, NoVolume, TRUE),
     R("input", <<3, 4>>, <<1, 2>>, -65, NoVolume, TRUE),
     R("input", <<3>>, <<3>>, -12, NoVolume, TRUE),
     R("input", <<4>>, <<1>>, 0, NoVolume, TRUE),
     R("input", <<1>>, <<2>>, 0, NoVolume, TRUE),
     R("playback", <<1, 2>>, <<1, 2>>, 0, -10, TRUE) >>

\* They have an output or an input in common.
Meet(r, q) ==
  \/ ToSet(r.output) \intersect ToSet(q.output) # {}
  \/ r.kind = q.kind /\ ToSet(r.source) \intersect ToSet(q.source) # {}

\* One route, or two that may stand in one file and may disturb each other.
RouteLists ==
  {f \in {<<>>} \union {<<Shapes[i]>> : i \in DOMAIN Shapes}
        \union {<<Shapes[i], Shapes[j]>> : i, j \in DOMAIN Shapes} :
     /\ LinksAgree(f)
     /\ Len(f) = 2 => \E i, j \in DOMAIN Shapes :
                      i < j /\ f = <<Shapes[i], Shapes[j]>> /\ Meet(Shapes[i], Shapes[j]) }

SmallConfigs ==
  {[routes |-> f, channels |-> <<>>] : f \in RouteLists}
    \union {[routes |-> f, channels |-> << Message(Gain, <<20>>), Message(MainOut, <<1>>) >>] :
              f \in {<<>>, <<Shapes[1]>>}}

\* Output by output, input by input.
InputMatrix == [i \in 1 .. 16 |-> Cell(((i - 1) \div 4) + 1, "input", ((i - 1) % 4) + 1)]

\* A cell turned aside, and a link of either kind.
Hand == { Message(Cell(1, "input", 1), <<-6, 30>>),
          Message(Stereo("output", 1), <<0>>), Message(Stereo("input", 1), <<0>>) }

\* An input to both outputs of a pair that is not linked, each to its side,
\* and hardly to be heard.
FaintHand == { Message(Cell(1, "input", 3), <<-62, -100>>), Message(Cell(2, "input", 3), <<-62, 100>>) }

=============================================================================
