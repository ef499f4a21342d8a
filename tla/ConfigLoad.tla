----------------------------- MODULE ConfigLoad -----------------------------
(***************************************************************************)
(* How routing.conf becomes a Config, or is refused (config.py), and how a *)
(* profile takes the settings of the machine from the main file            *)
(* (profiles.load_profile).  The sections are read in the order of the     *)
(* file; those that need the device wait until all of it has been read,    *)
(* because [device] may come last.                                         *)
(*                                                                         *)
(* A section is a record: its name, its kind, whether its values parse     *)
(* (ok), and what they say.  Text is left out, and a section has one       *)
(* option.                                                                 *)
(***************************************************************************)
EXTENDS RoutingPlan

CONSTANTS
  Requests,      \* what is asked for: <<file>>, or <<profile, main file>>
  Models,        \* device name -> its channels and its settable registers
  DefaultDevice, \* the name of the device when no file gives one
  DefaultPort,
  MaxChannel     \* CHANNEL_MAX

AllSections == UNION {UNION {ToSet(r[k]) : k \in DOMAIN r} : r \in Requests}

\* A request is one file or two, a file a sequence of sections.
ASSUME ConfigConstants ==
  /\ DefaultDevice \in DOMAIN Models
  /\ MaxChannel \in Nat
  /\ \A r \in Requests : r \in Seq(Seq(AllSections)) /\ Len(r) \in {1, 2}
  /\ \A s \in AllSections : s.kind = "route" =>
       s.playback \in Seq(Int) /\ s.input \in Seq(Int) /\ s.output \in Seq(Int)

\* [device], [osc] and [pin] are told by their name, which leaves one of each.
ASSUME NamesTellKinds ==
  \A s, t \in AllSections :
    s.kind = t.kind /\ s.kind \in {"device", "osc", "pin"} => s.name = t.name

VARIABLES
  asked,   \* the files to load, one after the other
  loaded,  \* the configs of those that are loaded
  phase,   \* where load_config is
  unread,  \* the sections it has still to dispatch
  config,  \* the config it is building
  waiting  \* the sections that wait for the device: global, nested, channel

vars == <<asked, loaded, phase, unread, config, waiting>>

NoConfig == [device |-> DefaultDevice, port |-> DefaultPort, routes |-> <<>>,
             channels |-> <<>>, globals |-> <<>>, policies |-> <<>>]

NothingWaits == [global |-> <<>>, nested |-> <<>>, channel |-> <<>>]

\* The table of a device; of one that is not modelled, an empty one.
DeviceForName(name) ==
  IF name \in DOMAIN Models THEN Models[name]
  ELSE [channels |-> [k \in {"playback", "input", "output"} |-> {}],
        flat |-> {}, globals |-> {}, nested |-> {}, families |-> {}]

SettableOptions(device, family) == {s[2] : s \in {f \in device.flat : f[1] = family}}

Init ==
  /\ asked \in Requests
  /\ loaded = <<>>
  /\ phase = "open"
  /\ unread = <<>> /\ config = NoConfig /\ waiting = NothingWaits

File == asked[Len(loaded) + 1]

Refuse ==
  /\ phase' = "refused"
  /\ UNCHANGED <<asked, loaded, unread, config, waiting>>

\* configparser refuses a file that names a section twice.
OpenFile ==
  /\ phase = "open"
  /\ IF \E i, j \in DOMAIN File : i # j /\ File[i].name = File[j].name
     THEN Refuse
     ELSE /\ phase' = "sections"
          /\ unread' = File /\ config' = NoConfig /\ waiting' = NothingWaits
          /\ UNCHANGED <<asked, loaded>>

----------------------------------------------------------------------------
(* _dispatch: one section after the other.                                 *)

Section == Head(unread)
Reading(kind) == phase = "sections" /\ unread # <<>> /\ Section.kind = kind

\* The section is taken, and leaves this config.
Take(built) ==
  /\ config' = built /\ unread' = Tail(unread)
  /\ UNCHANGED <<asked, loaded, phase, waiting>>

ReadDevice ==
  /\ Reading("device")
  /\ IF Section.ok THEN Take([config EXCEPT !.device = Section.device]) ELSE Refuse

ReadOsc ==
  /\ Reading("osc")
  /\ IF Section.ok THEN Take([config EXCEPT !.port = Section.port]) ELSE Refuse

\* A channel or a pair of channels, in the range of any device.
ChannelsParse(channels) ==
  Len(channels) \in {1, 2} /\ ToSet(channels) \subseteq 1 .. MaxChannel

\* bug: the source and the output are not compared.
RouteParsesUnevenly(s) ==
  /\ s.ok /\ (s.playback = <<>>) # (s.input = <<>>)
  /\ ChannelsParse(s.playback \o s.input) /\ ChannelsParse(s.output)

\* One source, an output, and both mono or both a pair.
RouteParses(s) ==
  /\ s.ok /\ (s.playback = <<>>) # (s.input = <<>>)
  /\ ChannelsParse(s.playback \o s.input) /\ ChannelsParse(s.output)
  /\ Len(s.playback \o s.input) = Len(s.output)

RouteOf(s) ==
  [kind |-> IF s.input = <<>> THEN "playback" ELSE "input",
   source |-> s.playback \o s.input, output |-> s.output,
   level |-> s.level, volume |-> s.volume, stereo |-> s.stereo]

ReadRoute ==
  /\ Reading("route")
  /\ IF RouteParses(Section)
     THEN Take([config EXCEPT !.routes = Append(@, RouteOf(Section))]) ELSE Refuse

Pinned(policies, register, policy) ==
  [k \in DOMAIN policies \union {register} |-> IF k = register THEN policy ELSE policies[k]]

\* [pin] is checked at once, against the device as named so far.
ReadPin ==
  /\ Reading("pin")
  /\ IF /\ Section.ok /\ Section.family \in {"input", "output"}
        /\ Section.option \in SettableOptions(DeviceForName(config.device), Section.family)
     THEN Take([config EXCEPT !.policies =
                  Pinned(@, <<Section.family, Section.option>>, Section.policy)])
     ELSE Refuse

\* A section whose family the device does not have is a newer version's.
Claimed(s) ==
  LET device == DeviceForName(config.device) IN
  \/ s.kind = "channel"
  \/ s.kind = "global" /\ \E g \in device.globals : g[1] = s.family
  \/ s.kind = "nested" /\ <<s.sub, s.family>> \in device.families

\* bug: the list is overwritten where it should grow.
CollectOne ==
  /\ \E kind \in {"channel", "global", "nested"} :
       /\ Reading(kind)
       /\ waiting' = IF Claimed(Section) THEN [waiting EXCEPT ![kind] = <<Section>>]
                     ELSE waiting
  /\ unread' = Tail(unread)
  /\ UNCHANGED <<asked, loaded, phase, config>>

Collect ==
  /\ \E kind \in {"channel", "global", "nested"} :
       /\ Reading(kind)
       /\ waiting' = IF Claimed(Section) THEN [waiting EXCEPT ![kind] = Append(@, Section)]
                     ELSE waiting
  /\ unread' = Tail(unread)
  /\ UNCHANGED <<asked, loaded, phase, config>>

\* Ignored with a warning (ADR 0006).
ReadUnknown == Reading("unknown") /\ Take(config)

----------------------------------------------------------------------------
(* The sections that waited, in the order global, nested, channel, checked *)
(* against the device the whole file names.                                *)

AllRead == phase = "sections" /\ unread = <<>>
Device  == DeviceForName(config.device)

\* Take the first section that waits in a list, with the settings it makes.
Resolve(kind, field, settings) ==
  /\ config' = [config EXCEPT ![field] = @ \o settings]
  /\ waiting' = [waiting EXCEPT ![kind] = Tail(@)]
  /\ UNCHANGED <<asked, loaded, phase, unread>>

ResolveGlobal ==
  /\ AllRead /\ waiting.global # <<>>
  /\ LET s == Head(waiting.global)
         known == {g \in Device.globals : g[1] = s.family}
     IN  IF known = {} THEN Resolve("global", "globals", <<>>)
         ELSE IF s.ok /\ <<s.family, s.option>> \in known
         THEN Resolve("global", "globals", <<Message(<<s.family, s.option>>, <<s.value>>)>>)
         ELSE Refuse

\* A family the device reports and cannot be set is refused, one the device
\* does not have is left out.
ResolveNested ==
  /\ AllRead /\ waiting.global = <<>> /\ waiting.nested # <<>>
  /\ LET s == Head(waiting.nested)
         known == {n \in Device.nested : n[1] = s.sub /\ n[2] = s.family}
     IN  IF known = {} /\ <<s.sub, s.family>> \notin Device.families
         THEN Resolve("nested", "channels", <<>>)
         ELSE IF s.ok /\ <<s.sub, s.family, s.option, s.channel>> \in known
         THEN Resolve("nested", "channels",
                <<Message(<<s.family, s.channel, s.sub, s.option>>, <<s.value>>)>>)
         ELSE Refuse

ResolveChannel ==
  /\ AllRead /\ waiting.global = <<>> /\ waiting.nested = <<>> /\ waiting.channel # <<>>
  /\ LET s == Head(waiting.channel)
     IN  IF SettableOptions(Device, s.family) = {} THEN Resolve("channel", "channels", <<>>)
         ELSE IF s.ok /\ <<s.family, s.option, s.channel>> \in Device.flat
         THEN Resolve("channel", "channels",
                <<Message(<<s.family, s.channel, s.option>>, <<s.value>>)>>)
         ELSE Refuse

----------------------------------------------------------------------------
(* The two checks of the whole config.                                     *)

\* bug: the channels are checked against the device there is no [device] for.
CheckDeviceChannelsTooEarly ==
  /\ AllRead /\ waiting = NothingWaits
  /\ IF ChannelsExist(config.routes, DeviceForName(DefaultDevice))
     THEN phase' = "links" /\ UNCHANGED <<asked, loaded, unread, config, waiting>>
     ELSE Refuse

CheckDeviceChannels ==
  /\ AllRead /\ waiting = NothingWaits
  /\ IF ChannelsExist(config.routes, Device)
     THEN phase' = "links" /\ UNCHANGED <<asked, loaded, unread, config, waiting>>
     ELSE Refuse

\* The file is loaded; the main file of a profile is next.
CheckLinkAgreement ==
  /\ phase = "links"
  /\ IF LinksAgree(config.routes)
     THEN /\ loaded' = Append(loaded, config)
          /\ phase' = IF Len(loaded') < Len(asked) THEN "open" ELSE "loaded"
          /\ UNCHANGED <<asked, unread, config, waiting>>
     ELSE Refuse

Next == \/ OpenFile \/ ReadDevice \/ ReadOsc \/ ReadRoute \/ ReadPin \/ Collect \/ ReadUnknown
        \/ ResolveGlobal \/ ResolveNested \/ ResolveChannel
        \/ CheckDeviceChannels \/ CheckLinkAgreement

Spec == Init /\ [][Next]_vars

----------------------------------------------------------------------------
(* load_profile: what the profile states of the machine it keeps, the rest *)
(* is the main file's.                                                     *)

States(file, kind) == \E i \in DOMAIN file : file[i].kind = kind

InheritTransport(profile, main, file) ==
  [profile EXCEPT !.port   = IF States(file, "osc") THEN @ ELSE main.port,
                  !.device = IF States(file, "device") THEN @ ELSE main.device]

Result == IF Len(asked) = 1 THEN loaded[1]
          ELSE InheritTransport(loaded[1], loaded[2], asked[1])

----------------------------------------------------------------------------
(* What a loaded config promises.                                          *)

\* The device a file is read for until it names one has the families of every
\* other: a section is dropped as unknown only if no device has it.
DefaultKnowsAll ==
  \A d \in DOMAIN Models :
    /\ \A g \in Models[d].globals : \E h \in Models[DefaultDevice].globals : h[1] = g[1]
    /\ Models[d].families \subseteq Models[DefaultDevice].families
    /\ \A n \in Models[d].nested : <<n[1], n[2]>> \in Models[d].families

Asked == UNION {ToSet(asked[k]) : k \in DOMAIN asked}

(* The loader works on the sections it was given, and every route it has   *)
(* taken is mono on both sides or a pair on both.                          *)
ConfigTypeOK ==
  /\ Len(asked) \in {1, 2}
  /\ phase \in {"open", "sections", "links", "loaded", "refused"}
  /\ Len(loaded) <= Len(asked) /\ (phase = "loaded" <=> Len(loaded) = Len(asked))
  /\ ToSet(unread \o waiting.global \o waiting.nested \o waiting.channel) \subseteq Asked
  /\ \A r \in ToSet(config.routes) :
       Len(r.source) = Len(r.output) /\ Len(r.output) \in {1, 2}

\* The device a file is for, wherever in the file it is named.
NamedDevice(file, default) ==
  IF States(file, "device")
  THEN (CHOOSE s \in ToSet(file) : s.kind = "device").device ELSE default

\* Whether a section makes sense on a device: its values are right, and it
\* names nothing the device is known not to have.
Fits(s, device) ==
  CASE s.kind \in {"device", "osc"} -> s.ok
    [] s.kind = "route"   -> RouteParses(s) /\ ChannelsExist(<<RouteOf(s)>>, device)
    [] s.kind = "pin"     -> /\ s.ok /\ s.family \in {"input", "output"}
                              /\ \E f \in device.flat : f[1] = s.family /\ f[2] = s.option
    [] s.kind = "channel" -> (\E f \in device.flat : f[1] = s.family)
                               => s.ok /\ <<s.family, s.option, s.channel>> \in device.flat
    [] s.kind = "global"  -> (\E g \in device.globals : g[1] = s.family)
                               => s.ok /\ <<s.family, s.option>> \in device.globals
    [] s.kind = "nested"  -> <<s.sub, s.family>> \in device.families
                               => s.ok /\ <<s.sub, s.family, s.option, s.channel>> \in device.nested
    [] OTHER -> TRUE

\* A file is fit for a device when its sections are, one by one, and agree.
FitFor(file, device) ==
  /\ \A i, j \in DOMAIN file : i # j => file[i].name # file[j].name
  /\ \A s \in ToSet(file) : Fits(s, device)
  /\ \A s, t \in ToSet(file) : s.kind = "route" /\ t.kind = "route"
                                => LinksAgree(<<RouteOf(s), RouteOf(t)>>)

PinsFollowDevice(file) ==
  \A i, j \in DOMAIN file : file[i].kind = "device" /\ file[j].kind = "pin" => i < j

(* A file is accepted exactly when its sections fit the device it names,   *)
(* in whatever order they come -- [pin] apart, which has to follow         *)
(* [device] (config.py parses it on the spot).                             *)
VerdictIgnoresOrder ==
  Len(asked) = 1 /\ PinsFollowDevice(asked[1]) =>
    LET fit == FitFor(asked[1], DeviceForName(NamedDevice(asked[1], DefaultDevice)))
    IN  (phase = "loaded" => fit) /\ (phase = "refused" => ~fit)

(* A loaded config sends one output pair one link value, whatever routes   *)
(* share it, provided its pairs are the hardware's: an odd channel and the *)
(* next (reconcile.py says the repeats that are dropped carry the same     *)
(* value; _check_link_agreement is what makes it true).                    *)
HardwarePair(route) ==
  Len(route.output) = 2 => route.output[1] % 2 = 1 /\ route.output[2] = route.output[1] + 1

LinksOf(routes) == UNION {ToSet(LinkMessages(r)) : r \in ToSet(routes)}

OneLinkPerPair ==
  phase = "loaded" /\ (\A r \in ToSet(Result.routes) : HardwarePair(r)) =>
    \A m, n \in LinksOf(Result.routes) : m.reg = n.reg => m.args = n.args

\* What a section says is in the config, unless it is of nothing the device has.
Counts(s, c) ==
  LET device == DeviceForName(c.device) IN
  /\ s.kind = "device" => c.device = s.device
  /\ s.kind = "osc"    => c.port = s.port
  /\ s.kind = "route"  => RouteOf(s) \in ToSet(c.routes)
  /\ s.kind = "pin"    => c.policies[<<s.family, s.option>>] = s.policy
  /\ s.kind = "channel" /\ <<s.family, s.option, s.channel>> \in device.flat
       => Message(<<s.family, s.channel, s.option>>, <<s.value>>) \in ToSet(c.channels)
  /\ s.kind = "global" /\ <<s.family, s.option>> \in device.globals
       => Message(<<s.family, s.option>>, <<s.value>>) \in ToSet(c.globals)
  /\ s.kind = "nested" /\ <<s.sub, s.family, s.option, s.channel>> \in device.nested
       => Message(<<s.family, s.channel, s.sub, s.option>>, <<s.value>>) \in ToSet(c.channels)

(* Nothing of an accepted file is dropped without a word: every section is *)
(* in the config, or names what its device does not have, or is unknown    *)
(* and was warned about (ADR 0006).                                        *)
EverySectionCounts ==
  phase = "loaded" =>
    \A k \in DOMAIN asked : \A s \in ToSet(asked[k]) : Counts(s, loaded[k])

(* Every repeat of a link that is dropped from the plan carries the value  *)
(* already in it, whatever pairs the routes name (reconcile.py, module     *)
(* comment).                                                               *)
RepeatedLinksAgree ==
  phase = "loaded" =>
    \A m, n \in LinksOf(Result.routes) : m.reg = n.reg => m.args = n.args

(* A profile is a routing.conf: what it asks for is accepted when it fits  *)
(* the device it will be applied to, the inherited one included.           *)
ProfileFitsItsDevice ==
  phase = "refused" /\ Len(asked) = 2 /\ Len(loaded) = 0 =>
    ~FitFor(asked[1], DeviceForName(NamedDevice(asked[1], NamedDevice(asked[2], DefaultDevice))))

=============================================================================
