-------------------------- MODULE ConfigLoadProofs --------------------------
(***************************************************************************)
(* For every file, every table of devices and every order of sections:     *)
(* what the loader accepts fits the device the file names, nothing of it   *)
(* is dropped, and the links of one output pair agree.                     *)
(***************************************************************************)
EXTENDS ConfigLoad, TLAPS

----------------------------------------------------------------------------
(* Types.                                                                  *)

OfKind(kind) == {s \in AllSections : s.kind = kind}

Routes   == {RouteOf(s) : s \in {s \in OfKind("route") : RouteParses(s)}}
Settings ==
  {Message(<<s.family, s.option>>, <<s.value>>) : s \in AllSections}
    \union {Message(<<s.family, s.channel, s.option>>, <<s.value>>) : s \in AllSections}
    \union {Message(<<s.family, s.channel, s.sub, s.option>>, <<s.value>>) : s \in AllSections}

Pins == {<<s.family, s.option>> : s \in OfKind("pin")}

Configs ==
  [device   : {DefaultDevice} \union {s.device : s \in OfKind("device")},
   port     : {DefaultPort} \union {s.port : s \in OfKind("osc")},
   routes   : Seq(Routes),
   channels : Seq(Settings),
   globals  : Seq(Settings),
   policies : UNION {[D -> {s.policy : s \in OfKind("pin")}] : D \in SUBSET Pins}]

Phases == {"open", "sections", "links", "loaded", "refused"}

Held ==
  /\ asked \in Requests
  /\ loaded \in Seq(Configs) /\ Len(loaded) <= Len(asked)
  /\ phase \in Phases
  /\ phase = "loaded" <=> Len(loaded) = Len(asked)
  /\ config \in Configs
  /\ unread \in Seq(Asked)
  /\ waiting \in [global : Seq(Asked), nested : Seq(Asked), channel : Seq(Asked)]
  /\ \A kind \in {"global", "nested", "channel"} : \A s \in ToSet(waiting[kind]) : s.kind = kind

\* What is asked for are sections.
LEMMA AskedTyped ==
  ASSUME asked \in Requests
  PROVE  /\ Len(asked) \in {1, 2} /\ DOMAIN asked = 1 .. Len(asked)
         /\ \A k \in DOMAIN asked : asked[k] \in Seq(Asked) /\ asked[k] \in Seq(AllSections)
         /\ Asked \subseteq AllSections
<1>1. asked \in Seq(Seq(AllSections)) /\ Len(asked) \in {1, 2}
  BY ConfigConstants
<1>2. \A k \in DOMAIN asked : asked[k] \in Seq(AllSections)
  BY <1>1
<1>3. \A k \in DOMAIN asked : \A i \in DOMAIN asked[k] : asked[k][i] \in Asked
  BY DEF Asked, ToSet
<1>4. \A k \in DOMAIN asked : asked[k] \in Seq(Asked)
  <2>. TAKE k \in DOMAIN asked
  <2>1. DOMAIN asked[k] = 1 .. Len(asked[k]) /\ Len(asked[k]) \in Nat /\ asked[k] \in [1 .. Len(asked[k]) -> AllSections]
    BY <1>2
  <2>2. asked[k] \in [1 .. Len(asked[k]) -> Asked]
    BY <1>3, <2>1
  <2>. QED
    BY <2>1, <2>2
<1>5. Asked \subseteq AllSections
  BY DEF Asked, AllSections
<1>. QED
  BY <1>1, <1>2, <1>4, <1>5

\* The head of a sequence is a member, and its tail is a sequence of others.
LEMMA TailOf ==
  ASSUME NEW S, NEW s \in Seq(S), s # <<>>
  PROVE  /\ Head(s) \in S /\ Tail(s) \in Seq(S)
         /\ Head(s) \in ToSet(s) /\ ToSet(Tail(s)) \subseteq ToSet(s)
         /\ \A x \in ToSet(s) : x = Head(s) \/ x \in ToSet(Tail(s))
<1>1. /\ Head(s) = s[1] /\ 1 \in DOMAIN s /\ Tail(s) \in Seq(S)
      /\ \A i \in DOMAIN Tail(s) : i + 1 \in DOMAIN s /\ Tail(s)[i] = s[i + 1]
      /\ \A i \in DOMAIN s : i # 1 => i - 1 \in DOMAIN Tail(s) /\ Tail(s)[i - 1] = s[i]
      /\ \A i \in DOMAIN s : s[i] \in S
  OBVIOUS
<1>2. Head(s) \in S /\ Tail(s) \in Seq(S) /\ Head(s) \in ToSet(s)
  BY <1>1 DEF ToSet
<1>3. ToSet(Tail(s)) \subseteq ToSet(s)
  BY <1>1 DEF ToSet
<1>4. ASSUME NEW i \in DOMAIN s PROVE s[i] = Head(s) \/ s[i] \in ToSet(Tail(s))
  BY <1>1 DEF ToSet
<1>. QED
  BY <1>2, <1>3, <1>4 DEF ToSet

\* What is appended is in the sequence, and what was in it stays.
LEMMA AppendOf ==
  ASSUME NEW S, NEW s \in Seq(S), NEW x \in S
  PROVE  /\ Append(s, x) \in Seq(S)
         /\ ToSet(Append(s, x)) = ToSet(s) \union {x}
<1>1. /\ Append(s, x) \in Seq(S) /\ DOMAIN Append(s, x) = 1 .. (Len(s) + 1)
      /\ Append(s, x)[Len(s) + 1] = x /\ DOMAIN s = 1 .. Len(s) /\ Len(s) \in Nat
      /\ \A i \in DOMAIN s : i \in DOMAIN Append(s, x) /\ Append(s, x)[i] = s[i]
  OBVIOUS
<1>2. \A i \in DOMAIN Append(s, x) : i \in DOMAIN s \/ i = Len(s) + 1
  BY <1>1
<1>3. Len(s) + 1 \in DOMAIN Append(s, x)
  BY <1>1
<1>. QED
  BY <1>1, <1>2, <1>3 DEF ToSet

\* The section that is read is one of those that are asked for.
LEMMA HeadAsked ==
  ASSUME Held, unread # <<>>
  PROVE  /\ Section \in Asked /\ Section \in AllSections /\ Tail(unread) \in Seq(Asked)
BY AskedTyped, TailOf DEF Held, Section

LEMMA RefuseHeld ==
  ASSUME Held, Refuse, phase # "loaded"
  PROVE  Held'
BY DEF Held, Refuse, Phases, Asked

LEMMA TakeHeld ==
  ASSUME Held, unread # <<>>, NEW built \in Configs, Take(built)
  PROVE  Held'
BY HeadAsked DEF Held, Take, Asked

LEMMA NoConfigTyped == NoConfig \in Configs
<1>. DEFINE policySets == UNION {[D -> {s.policy : s \in OfKind("pin")}] : D \in SUBSET Pins}
            names == {DefaultDevice} \union {s.device : s \in OfKind("device")}
            ports == {DefaultPort} \union {s.port : s \in OfKind("osc")}
<1>1. <<>> \in policySets
  <2>1. <<>> \in [{} -> {s.policy : s \in OfKind("pin")}]
    OBVIOUS
  <2>. QED
    BY <2>1
<1>2. DefaultDevice \in names /\ DefaultPort \in ports
  OBVIOUS
<1>3. Configs = [device : names, port : ports, routes : Seq(Routes), channels : Seq(Settings),
                 globals : Seq(Settings), policies : policySets]
  BY DEF Configs
<1>. HIDE DEF policySets, names, ports
<1>. QED
  BY <1>1, <1>2, <1>3 DEF NoConfig

LEMMA OpenFileHeld ==
  ASSUME Held, OpenFile
  PROVE  Held'
<1>1. CASE Refuse
  BY <1>1, RefuseHeld DEF OpenFile
<1>2. CASE /\ phase' = "sections"
           /\ unread' = File /\ config' = NoConfig /\ waiting' = NothingWaits
           /\ UNCHANGED <<asked, loaded>>
  <2>1. File \in Seq(Asked)
    <3>1. Len(loaded) + 1 \in DOMAIN asked
      BY AskedTyped DEF Held, OpenFile
    <3>. QED
      BY <3>1, AskedTyped DEF Held, File
  <2>2. NoConfig \in Configs
    BY NoConfigTyped
  <2>3. NothingWaits \in [global : Seq(Asked), nested : Seq(Asked), channel : Seq(Asked)]
    BY DEF NothingWaits
  <2>4. \A kind \in {"global", "nested", "channel"} : ToSet(NothingWaits[kind]) = {}
    BY DEF NothingWaits, ToSet
  <2>5. phase = "open"
    BY DEF OpenFile
  <2>. QED
    BY <1>2, <2>1, <2>2, <2>3, <2>4, <2>5 DEF Held, Phases, Asked
<1>. QED
  BY <1>1, <1>2 DEF OpenFile

LEMMA PinnedTyped ==
  ASSUME NEW s \in OfKind("pin"), NEW P,
         NEW policies \in UNION {[D -> P] : D \in SUBSET Pins}, s.policy \in P
  PROVE  Pinned(policies, <<s.family, s.option>>, s.policy) \in UNION {[D -> P] : D \in SUBSET Pins}
<1>1. PICK D \in SUBSET Pins : policies \in [D -> P]
  OBVIOUS
<1>2. <<s.family, s.option>> \in Pins
  BY DEF Pins
<1>3. Pinned(policies, <<s.family, s.option>>, s.policy) \in [D \union {<<s.family, s.option>>} -> P]
  BY <1>1 DEF Pinned
<1>4. D \union {<<s.family, s.option>>} \in SUBSET Pins
  BY <1>2
<1>. QED
  BY <1>3, <1>4

LEMMA SectionsHeld ==
  ASSUME Held, ReadDevice \/ ReadOsc \/ ReadRoute \/ ReadPin \/ ReadUnknown
  PROVE  Held'
<1>. DEFINE s == Section
<1>1. ASSUME unread # <<>> PROVE s \in AllSections
  BY <1>1, HeadAsked
<1>2. CASE ReadDevice
  <2>1. s \in OfKind("device")
    BY <1>1, <1>2 DEF ReadDevice, Reading, OfKind
  <2>2. [config EXCEPT !.device = s.device] \in Configs
    BY <2>1 DEF Held, Configs
  <2>. QED
    BY <1>2, <2>2, TakeHeld, RefuseHeld DEF ReadDevice, Reading
<1>3. CASE ReadOsc
  <2>1. s \in OfKind("osc")
    BY <1>1, <1>3 DEF ReadOsc, Reading, OfKind
  <2>2. [config EXCEPT !.port = s.port] \in Configs
    BY <2>1 DEF Held, Configs
  <2>. QED
    BY <1>3, <2>2, TakeHeld, RefuseHeld DEF ReadOsc, Reading
<1>4. CASE ReadRoute
  <2>1. s \in OfKind("route")
    BY <1>1, <1>4 DEF ReadRoute, Reading, OfKind
  <2>2. ASSUME RouteParses(s) PROVE [config EXCEPT !.routes = Append(@, RouteOf(s))] \in Configs
    <3>1. RouteOf(s) \in Routes
      BY <2>1, <2>2 DEF Routes
    <3>2. config.routes \in Seq(Routes)
      BY DEF Held, Configs
    <3>3. Append(config.routes, RouteOf(s)) \in Seq(Routes)
      BY <3>1, <3>2
    <3>. QED
      BY <3>3 DEF Held, Configs
  <2>. QED
    BY <1>4, <2>2, TakeHeld, RefuseHeld DEF ReadRoute, Reading
<1>5. CASE ReadPin
  <2>1. s \in OfKind("pin")
    BY <1>1, <1>5 DEF ReadPin, Reading, OfKind
  <2>2. [config EXCEPT !.policies = Pinned(@, <<s.family, s.option>>, s.policy)] \in Configs
    <3>. DEFINE P == {t.policy : t \in OfKind("pin")}
    <3>1. config.policies \in UNION {[D -> P] : D \in SUBSET Pins}
      BY DEF Held, Configs
    <3>2. Pinned(config.policies, <<s.family, s.option>>, s.policy) \in UNION {[D -> P] : D \in SUBSET Pins}
      <4>1. s.policy \in P
        BY <2>1
      <4>. HIDE DEF P, s
      <4>. QED
        BY <2>1, <3>1, <4>1, PinnedTyped
    <3>. QED
      BY <3>2 DEF Held, Configs
  <2>. QED
    BY <1>5, <2>2, TakeHeld, RefuseHeld DEF ReadPin, Reading
<1>6. CASE ReadUnknown
  BY <1>6, TakeHeld DEF ReadUnknown, Reading, Held
<1>. QED
  BY <1>2, <1>3, <1>4, <1>5, <1>6

LEMMA CollectHeld ==
  ASSUME Held, Collect
  PROVE  Held'
<1>1. PICK kind \in {"global", "nested", "channel"} :
        /\ Reading(kind)
        /\ waiting' = IF Claimed(Section) THEN [waiting EXCEPT ![kind] = Append(@, Section)]
                      ELSE waiting
  BY DEF Collect
<1>2. /\ unread' = Tail(unread) /\ UNCHANGED <<asked, loaded, phase, config>>
  BY DEF Collect
<1>3. Section \in Asked /\ Section.kind = kind /\ Tail(unread) \in Seq(Asked)
  BY <1>1, HeadAsked DEF Reading
<1>4. waiting[kind] \in Seq(Asked)
  BY DEF Held
<1>5. /\ Append(waiting[kind], Section) \in Seq(Asked)
      /\ ToSet(Append(waiting[kind], Section)) = ToSet(waiting[kind]) \union {Section}
  BY <1>3, <1>4, AppendOf
<1>6. waiting' \in [global : Seq(Asked), nested : Seq(Asked), channel : Seq(Asked)]
  BY <1>1, <1>5 DEF Held
<1>7. \A k \in {"global", "nested", "channel"} : \A s \in ToSet(waiting'[k]) : s.kind = k
  <2>. TAKE k \in {"global", "nested", "channel"}
  <2>1. CASE k = kind
    BY <1>1, <1>3, <1>5, <2>1 DEF Held
  <2>2. CASE k # kind
    BY <1>1, <2>2 DEF Held
  <2>. QED
    BY <2>1, <2>2
<1>. QED
  BY <1>2, <1>3, <1>6, <1>7 DEF Held, Asked

\* Taking a section that waited, with settings a section makes.
LEMMA ResolveHeld ==
  ASSUME Held, NEW kind \in {"global", "nested", "channel"}, waiting[kind] # <<>>,
         NEW field \in {"globals", "channels"}, NEW made \in Seq(Settings),
         Resolve(kind, field, made)
  PROVE  /\ Held'
         /\ Head(waiting[kind]) \in Asked /\ Head(waiting[kind]).kind = kind
         /\ ToSet(config'[field]) = ToSet(config[field]) \union ToSet(made)
<1>1. waiting[kind] \in Seq(Asked)
  BY DEF Held
<1>2. /\ Head(waiting[kind]) \in Asked /\ Tail(waiting[kind]) \in Seq(Asked)
      /\ Head(waiting[kind]) \in ToSet(waiting[kind]) /\ ToSet(Tail(waiting[kind])) \subseteq ToSet(waiting[kind])
  BY <1>1, TailOf
<1>3. config[field] \in Seq(Settings)
  BY DEF Held, Configs
<1>4. /\ config[field] \o made \in Seq(Settings)
      /\ ToSet(config[field] \o made) = ToSet(config[field]) \union ToSet(made)
  <2>1. /\ DOMAIN config[field] = 1 .. Len(config[field]) /\ Len(config[field]) \in Nat
        /\ DOMAIN made = 1 .. Len(made) /\ Len(made) \in Nat
        /\ config[field] \o made \in Seq(Settings)
        /\ DOMAIN (config[field] \o made) = 1 .. (Len(config[field]) + Len(made))
        /\ \A i \in DOMAIN config[field] : (config[field] \o made)[i] = config[field][i]
        /\ \A i \in DOMAIN made : (config[field] \o made)[Len(config[field]) + i] = made[i]
    BY <1>3
  <2>2. \A i \in DOMAIN (config[field] \o made) :
          i \in DOMAIN config[field] \/ \E j \in DOMAIN made : i = Len(config[field]) + j
    <3>. TAKE i \in DOMAIN (config[field] \o made)
    <3>1. i \notin DOMAIN config[field] => i - Len(config[field]) \in DOMAIN made
      BY <2>1
    <3>. QED
      BY <2>1, <3>1
  <2>3. /\ \A i \in DOMAIN config[field] : i \in DOMAIN (config[field] \o made)
        /\ \A i \in DOMAIN made : Len(config[field]) + i \in DOMAIN (config[field] \o made)
    BY <2>1
  <2>4. ToSet(config[field] \o made) \subseteq ToSet(config[field]) \union ToSet(made)
    BY <2>1, <2>2 DEF ToSet
  <2>5. ToSet(config[field]) \union ToSet(made) \subseteq ToSet(config[field] \o made)
    BY <2>1, <2>3 DEF ToSet
  <2>. QED
    BY <2>1, <2>4, <2>5
<1>5. config' \in Configs /\ config'[field] = config[field] \o made
  BY <1>4 DEF Held, Resolve, Configs
<1>6. waiting' \in [global : Seq(Asked), nested : Seq(Asked), channel : Seq(Asked)]
  BY <1>2 DEF Held, Resolve
<1>7. \A k \in {"global", "nested", "channel"} : ToSet(waiting'[k]) \subseteq ToSet(waiting[k])
  BY <1>2 DEF Held, Resolve
<1>8. Held'
  BY <1>5, <1>6, <1>7 DEF Held, Resolve, Asked
<1>. QED
  BY <1>2, <1>4, <1>5, <1>8 DEF Held

\* The setting a section makes, as the list that is appended.
LEMMA Singleton ==
  ASSUME NEW s \in AllSections
  PROVE  /\ <<Message(<<s.family, s.option>>, <<s.value>>)>> \in Seq(Settings)
         /\ <<Message(<<s.family, s.channel, s.option>>, <<s.value>>)>> \in Seq(Settings)
         /\ <<Message(<<s.family, s.channel, s.sub, s.option>>, <<s.value>>)>> \in Seq(Settings)
         /\ \A m : m \in ToSet(<<m>>)
         /\ <<>> \in Seq(Settings)
<1>1. \A m \in Settings : <<m>> \in Seq(Settings)
  OBVIOUS
<1>2. /\ Message(<<s.family, s.option>>, <<s.value>>) \in Settings
      /\ Message(<<s.family, s.channel, s.option>>, <<s.value>>) \in Settings
      /\ Message(<<s.family, s.channel, s.sub, s.option>>, <<s.value>>) \in Settings
  BY DEF Settings
<1>3. \A m : m \in ToSet(<<m>>)
  BY DEF ToSet
<1>. QED
  BY <1>1, <1>2, <1>3

LEMMA ResolvesHeld ==
  ASSUME Held, ResolveGlobal \/ ResolveNested \/ ResolveChannel
  PROVE  Held'
<1>2. \A kind \in {"global", "nested", "channel"} :
        waiting[kind] # <<>> => Head(waiting[kind]) \in AllSections
  <2>. SUFFICES ASSUME NEW kind \in {"global", "nested", "channel"}, waiting[kind] # <<>>
                PROVE  Head(waiting[kind]) \in AllSections
    OBVIOUS
  <2>1. waiting[kind] \in Seq(Asked)
    BY DEF Held
  <2>. QED
    BY <2>1, TailOf, AskedTyped DEF Held
<1>3. ASSUME NEW kind \in {"global", "nested", "channel"}, waiting[kind] # <<>>,
             NEW field \in {"globals", "channels"}, NEW made \in Seq(Settings),
             Resolve(kind, field, made)
      PROVE  Held'
  BY <1>3, ResolveHeld
<1>4. CASE ResolveGlobal
  <2>1. waiting["global"] # <<>> /\ Head(waiting["global"]) \in AllSections
    BY <1>2, <1>4 DEF ResolveGlobal
  <2>2. \/ Refuse /\ phase = "sections"
        \/ \E made \in Seq(Settings) : Resolve("global", "globals", made)
    BY <1>4, <2>1, Singleton DEF ResolveGlobal, AllRead
  <2>. QED
    BY <1>3, <2>1, <2>2, RefuseHeld
<1>5. CASE ResolveNested
  <2>1. waiting["nested"] # <<>> /\ Head(waiting["nested"]) \in AllSections
    BY <1>2, <1>5 DEF ResolveNested
  <2>2. \/ Refuse /\ phase = "sections"
        \/ \E made \in Seq(Settings) : Resolve("nested", "channels", made)
    BY <1>5, <2>1, Singleton DEF ResolveNested, AllRead
  <2>. QED
    BY <1>3, <2>1, <2>2, RefuseHeld
<1>6. CASE ResolveChannel
  <2>1. waiting["channel"] # <<>> /\ Head(waiting["channel"]) \in AllSections
    BY <1>2, <1>6 DEF ResolveChannel
  <2>2. \/ Refuse /\ phase = "sections"
        \/ \E made \in Seq(Settings) : Resolve("channel", "channels", made)
    BY <1>6, <2>1, Singleton DEF ResolveChannel, AllRead
  <2>. QED
    BY <1>3, <2>1, <2>2, RefuseHeld
<1>. QED
  BY <1>4, <1>5, <1>6

LEMMA HeldStep == Held /\ [Next]_vars => Held'
<1>. SUFFICES ASSUME Held, [Next]_vars PROVE Held'
  OBVIOUS
<1>1. CASE CheckDeviceChannels
  <2>1. phase = "sections"
    BY <1>1 DEF CheckDeviceChannels, AllRead
  <2>2. CASE phase' = "links" /\ UNCHANGED <<asked, loaded, unread, config, waiting>>
    BY <2>1, <2>2 DEF Held, Phases, Asked
  <2>. QED
    BY <1>1, <2>1, <2>2, RefuseHeld DEF CheckDeviceChannels
<1>2. CASE CheckLinkAgreement
  <2>1. phase = "links" /\ Len(loaded) < Len(asked)
    BY <1>2, AskedTyped DEF CheckLinkAgreement, Held
  <2>2. CASE /\ loaded' = Append(loaded, config)
             /\ phase' = IF Len(loaded') < Len(asked) THEN "open" ELSE "loaded"
             /\ UNCHANGED <<asked, unread, config, waiting>>
    <3>1. loaded' \in Seq(Configs) /\ Len(loaded') = Len(loaded) + 1
      BY <2>2 DEF Held
    <3>2. Len(loaded') <= Len(asked) /\ (phase' = "loaded" <=> Len(loaded') = Len(asked)) /\ phase' \in Phases
      <4>1. Len(loaded) \in Nat /\ Len(asked) \in Nat /\ phase' \in {"open", "loaded"}
        BY <2>2, AskedTyped DEF Held
      <4>. QED
        BY <2>1, <2>2, <3>1, <4>1 DEF Phases
    <3>. QED
      BY <2>2, <3>1, <3>2 DEF Held, Asked
  <2>. QED
    BY <1>2, <2>1, <2>2, RefuseHeld DEF CheckLinkAgreement
<1>3. CASE UNCHANGED vars
  BY <1>3 DEF Held, vars, Asked
<1>. QED
  BY <1>1, <1>2, <1>3, OpenFileHeld, SectionsHeld, CollectHeld, ResolvesHeld DEF Next

LEMMA HeldInit == Init => Held
<1>. SUFFICES ASSUME Init PROVE Held
  OBVIOUS
<1>. QED
  BY NoConfigTyped, AskedTyped DEF Init, Held, Phases, NothingWaits, ToSet

\* The loader works on the sections it was given, and a route it has taken has
\* as many outputs as sources (_parse_route).
THEOREM ConfigTyped == Spec => []ConfigTypeOK
<1>1. Held => ConfigTypeOK
  <2>. SUFFICES ASSUME Held PROVE ConfigTypeOK
    OBVIOUS
  <2>1. unread \o waiting.global \o waiting.nested \o waiting.channel \in Seq(Asked)
    BY DEF Held
  <2>2. ToSet(unread \o waiting.global \o waiting.nested \o waiting.channel) \subseteq Asked
    <3>. DEFINE all == unread \o waiting.global \o waiting.nested \o waiting.channel
    <3>1. \A i \in DOMAIN all : all[i] \in Asked
      <4>1. all \in Seq(Asked)
        BY <2>1
      <4>. HIDE DEF all
      <4>. QED
        BY <4>1
    <3>. QED
      BY <3>1 DEF ToSet
  <2>3. ASSUME NEW r \in ToSet(config.routes) PROVE Len(r.source) = Len(r.output) /\ Len(r.output) \in {1, 2}
    <3>1. r \in Routes
      <4>1. config.routes \in Seq(Routes)
        BY DEF Held, Configs
      <4>. QED
        BY <4>1 DEF ToSet
    <3>2. PICK s \in OfKind("route") : RouteParses(s) /\ r = RouteOf(s)
      BY <3>1 DEF Routes
    <3>. QED
      BY <3>2 DEF RouteParses, RouteOf, ChannelsParse
  <2>. QED
    BY <2>2, <2>3, AskedTyped DEF Held, ConfigTypeOK, Phases
<1>. QED
  BY <1>1, HeldInit, HeldStep, PTL DEF Spec

----------------------------------------------------------------------------
(* Reading a file.  The sections before At have been read; each of them is *)
(* in the config, waits, or is of a family the device does not have.       *)

At == Len(File) - Len(unread)

ReadSoFar == {File[i] : i \in 1 .. At}

Distinct(file) == \A i, j \in DOMAIN file : i # j => file[i].name # file[j].name

Late == {"global", "nested", "channel"}

\* A section that waited, and the device it was checked against.
Settled(s) == Fits(s, Device) /\ Counts(s, config)

Accepted(s) ==
  /\ s.kind = "device" => s.ok /\ config.device = s.device
  /\ s.kind = "osc"    => s.ok /\ config.port = s.port
  /\ s.kind = "route"  => RouteParses(s) /\ RouteOf(s) \in ToSet(config.routes)
  /\ s.kind = "pin"    =>
       /\ s.ok /\ s.family \in {"input", "output"}
       /\ config.policies[<<s.family, s.option>>] = s.policy
       /\ PinsFollowDevice(File) => \E f \in Device.flat : f[1] = s.family /\ f[2] = s.option
  /\ s.kind \in Late   => \/ s \in ToSet(waiting[s.kind])
                          \/ ~Claimed(s)
                          \/ unread = <<>> /\ Settled(s)

Underway ==
  phase \in {"sections", "links"} =>
    /\ Distinct(File)
    /\ At \in 0 .. Len(File)
    /\ \A j \in DOMAIN unread : At + j \in DOMAIN File /\ unread[j] = File[At + j]
    /\ \A s \in ReadSoFar : Accepted(s)
    /\ (\A s \in ReadSoFar : s.kind # "device") => config.device = DefaultDevice
    /\ \A kind \in Late : ToSet(waiting[kind]) \subseteq ToSet(File)
    /\ \A r \in ToSet(config.routes) :
         \E s \in ToSet(File) : s.kind = "route" /\ RouteParses(s) /\ r = RouteOf(s)
    /\ phase = "links" =>
         unread = <<>> /\ waiting = NothingWaits /\ ChannelsExist(config.routes, Device)

LEMMA FileTyped ==
  ASSUME Held, phase \in {"open", "sections", "links"}
  PROVE  /\ Len(loaded) + 1 \in DOMAIN asked /\ File = asked[Len(loaded) + 1]
         /\ File \in Seq(AllSections) /\ DOMAIN File = 1 .. Len(File) /\ Len(File) \in Nat
         /\ \A i \in DOMAIN File : File[i] \in AllSections /\ File[i] \in ToSet(File)
<1>1. Len(loaded) + 1 \in DOMAIN asked
  <2>1. Len(loaded) # Len(asked) /\ Len(loaded) <= Len(asked) /\ Len(loaded) \in Nat /\ Len(asked) \in Nat
    BY AskedTyped DEF Held
  <2>. QED
    BY <2>1, AskedTyped DEF Held
<1>2. File \in Seq(AllSections)
  BY <1>1, AskedTyped DEF Held, File
<1>. QED
  BY <1>1, <1>2 DEF File, ToSet

\* There is one section of each of these kinds in a file that opens.
LEMMA OneOfAKind ==
  ASSUME Held, phase \in {"open", "sections", "links"}, Distinct(File),
         NEW i \in DOMAIN File, NEW j \in DOMAIN File,
         File[i].kind = File[j].kind, File[i].kind \in {"device", "osc", "pin"}
  PROVE  i = j
BY FileTyped, NamesTellKinds DEF Distinct

\* When [device] has been read, or there is none, the config names the device
\* of the file.
LEMMA NamedByNow ==
  ASSUME Held, Underway, phase \in {"sections", "links"},
         \A s \in ToSet(File) : s.kind = "device" => s \in ReadSoFar
  PROVE  config.device = NamedDevice(File, DefaultDevice)
<1>1. CASE \E s \in ToSet(File) : s.kind = "device"
  <2>1. PICK s \in ToSet(File) : s.kind = "device"
    BY <1>1
  <2>2. config.device = s.device
    BY <2>1 DEF Underway, Accepted
  <2>3. \A t \in ToSet(File) : t.kind = "device" => t = s
    BY <2>1, OneOfAKind DEF Underway, ToSet
  <2>4. (CHOOSE t \in ToSet(File) : t.kind = "device") = s
    BY <2>1, <2>3
  <2>. QED
    BY <1>1, <2>1, <2>2, <2>4, FileTyped DEF NamedDevice, States, ToSet
<1>2. CASE \A s \in ToSet(File) : s.kind # "device"
  <2>1. \A s \in ReadSoFar : s \in ToSet(File)
    BY FileTyped DEF Underway, ReadSoFar
  <2>. QED
    BY <1>2, <2>1, FileTyped DEF Underway, NamedDevice, States
<1>. QED
  BY <1>1, <1>2

\* What no device has under the first table, no device has.
LEMMA UnclaimedByAll ==
  ASSUME DefaultKnowsAll, NEW s, NEW d,
         ~(s.kind = "channel"),
         ~(s.kind = "global" /\ \E g \in DeviceForName(DefaultDevice).globals : g[1] = s.family),
         ~(s.kind = "nested" /\ <<s.sub, s.family>> \in DeviceForName(DefaultDevice).families)
  PROVE  /\ ~(s.kind = "global" /\ \E g \in DeviceForName(d).globals : g[1] = s.family)
         /\ ~(s.kind = "nested" /\ <<s.sub, s.family>> \in DeviceForName(d).families)
<1>1. DefaultDevice \in DOMAIN Models
  BY ConfigConstants
<1>2. CASE d \in DOMAIN Models
  BY <1>1, <1>2 DEF DefaultKnowsAll, DeviceForName
<1>3. CASE d \notin DOMAIN Models
  <2>1. DeviceForName(d).globals = {} /\ DeviceForName(d).families = {}
    BY <1>3 DEF DeviceForName
  <2>. QED
    BY <2>1
<1>. QED
  BY <1>2, <1>3

\* One section further: what was read before is still before it, and the
\* section read is the next of the file.
LEMMA Advance ==
  ASSUME Held, Underway, phase = "sections", unread # <<>>,
         unread' = Tail(unread), UNCHANGED <<asked, loaded, phase>>
  PROVE  /\ File' = File /\ At' \in 0 .. Len(File)
         /\ \A j \in DOMAIN unread' : At' + j \in DOMAIN File /\ unread'[j] = File[At' + j]
         /\ Section \in ToSet(File) /\ Section \in ReadSoFar'
         /\ \A s \in ReadSoFar' : s \in ReadSoFar \/ s = Section
         /\ ReadSoFar \subseteq ReadSoFar'
         /\ At + 1 \in DOMAIN File /\ Section = File[At + 1] /\ ReadSoFar \subseteq ToSet(File)
         /\ \A s \in ReadSoFar : \E i \in DOMAIN File : s = File[i] /\ i < At + 1
<1>1. File' = File
  BY DEF File
<1>2. /\ Len(Tail(unread)) = Len(unread) - 1 /\ Len(unread) \in Nat /\ Len(unread) > 0
      /\ 1 \in DOMAIN unread /\ Head(unread) = unread[1]
      /\ \A j \in DOMAIN Tail(unread) : j \in Nat /\ j + 1 \in DOMAIN unread /\ Tail(unread)[j] = unread[j + 1]
  <2>1. unread \in Seq(Asked)
    BY DEF Held
  <2>. QED
    BY <2>1
<1>3. Len(File) \in Nat /\ DOMAIN File = 1 .. Len(File)
  BY FileTyped
<1>4. At' = At + 1
  BY <1>1, <1>2, <1>3 DEF At
<1>5. /\ At \in 0 .. Len(File)
      /\ \A j \in DOMAIN unread : At + j \in DOMAIN File /\ unread[j] = File[At + j]
  BY DEF Underway
<1>6. At + 1 \in DOMAIN File /\ Section = File[At + 1]
  BY <1>2, <1>5 DEF Section
<1>7. \A j \in DOMAIN unread' : At' + j \in DOMAIN File /\ unread'[j] = File[At' + j]
  <2>. TAKE j \in DOMAIN unread'
  <2>1. j \in Nat /\ j + 1 \in DOMAIN unread /\ unread'[j] = unread[j + 1]
    BY <1>2
  <2>2. At + (j + 1) \in DOMAIN File /\ unread[j + 1] = File[At + (j + 1)]
    BY <1>5, <2>1
  <2>3. At + (j + 1) = At' + j
    BY <1>4, <1>5, <2>1
  <2>. QED
    BY <2>1, <2>2, <2>3
<1>8. /\ 1 .. At' = (1 .. At) \union {At + 1} /\ At' \in 0 .. Len(File)
      /\ \A i \in 1 .. At : i \in DOMAIN File /\ i < At + 1
  BY <1>3, <1>4, <1>5, <1>6
<1>9. ReadSoFar' = ReadSoFar \union {Section}
  BY <1>1, <1>6, <1>8 DEF ReadSoFar
<1>10. Section \in ToSet(File) /\ ReadSoFar \subseteq ToSet(File)
  BY <1>6, <1>8 DEF ToSet, ReadSoFar
<1>11. \A s \in ReadSoFar : \E i \in DOMAIN File : s = File[i] /\ i < At + 1
  BY <1>8 DEF ReadSoFar
<1>. QED
  BY <1>1, <1>6, <1>7, <1>8, <1>9, <1>10, <1>11

\* What is kept by reading one section: all that was read, and the one.
LEMMA AdvanceKeeps ==
  ASSUME Held, Underway, phase = "sections", unread # <<>>,
         unread' = Tail(unread), UNCHANGED <<asked, loaded, phase>>,
         NEW s, s = Section, Accepted(s)',
         \A t \in ReadSoFar : Accepted(t)',
         s.kind # "device" => config'.device = config.device,
         \A kind \in Late : ToSet(waiting'[kind]) \subseteq ToSet(waiting[kind]) \union {s},
         \A r \in ToSet(config'.routes) :
           r \in ToSet(config.routes) \/ (s.kind = "route" /\ RouteParses(s) /\ r = RouteOf(s))
  PROVE  Underway'
<1>1. /\ File' = File /\ At' \in 0 .. Len(File)
      /\ \A j \in DOMAIN unread' : At' + j \in DOMAIN File /\ unread'[j] = File[At' + j]
      /\ s \in ToSet(File) /\ s \in ReadSoFar' /\ ReadSoFar \subseteq ReadSoFar'
      /\ \A t \in ReadSoFar' : t \in ReadSoFar \/ t = s
  BY Advance
<1>2. Distinct(File')
  BY <1>1 DEF Underway
<1>3. \A t \in ReadSoFar' : Accepted(t)'
  BY <1>1
<1>4. (\A t \in ReadSoFar' : t.kind # "device") => config'.device = DefaultDevice
  BY <1>1 DEF Underway
<1>5. \A kind \in Late : ToSet(waiting'[kind]) \subseteq ToSet(File')
  BY <1>1 DEF Underway
<1>6. \A r \in ToSet(config'.routes) :
        \E t \in ToSet(File') : t.kind = "route" /\ RouteParses(t) /\ r = RouteOf(t)
  BY <1>1 DEF Underway
<1>. QED
  BY <1>1, <1>2, <1>3, <1>4, <1>5, <1>6 DEF Underway

\* A section before the next one, of a kind there is one of, is not the next.
LEMMA OtherKind ==
  ASSUME Held, Underway, phase = "sections", unread # <<>>,
         unread' = Tail(unread), UNCHANGED <<asked, loaded, phase>>,
         Section.kind \in {"device", "osc", "pin"}, NEW t \in ReadSoFar
  PROVE  t.kind # Section.kind
<1>1. /\ At + 1 \in DOMAIN File /\ Section = File[At + 1] /\ At \in Nat
      /\ \E i \in DOMAIN File : t = File[i] /\ i < At + 1
  BY Advance DEF Underway
<1>. QED
  BY <1>1, OneOfAKind DEF Underway

LEMMA ReadDeviceUnderway ==
  ASSUME DefaultKnowsAll, Held, Underway, ReadDevice, ~Refuse
  PROVE  Underway'
<1>0. PICK s : s = Section
  OBVIOUS
<1>1. /\ s.kind = "device" /\ s.ok /\ phase = "sections" /\ unread # <<>>
      /\ config' = [config EXCEPT !.device = s.device] /\ unread' = Tail(unread)
      /\ UNCHANGED <<asked, loaded, phase, waiting>>
  BY <1>0 DEF ReadDevice, Reading, Take
<1>2. /\ config'.device = s.device /\ config'.port = config.port
      /\ config'.routes = config.routes /\ config'.policies = config.policies
  BY <1>1 DEF Held, Configs
<1>3. \A t \in ReadSoFar : t.kind # "device"
  BY <1>0, <1>1, OtherKind
<1>4. config.device = DefaultDevice
  BY <1>1, <1>3 DEF Underway
<1>5. File' = File
  BY <1>1 DEF File
<1>6. ASSUME NEW t \in ReadSoFar PROVE Accepted(t)'
  <2>1. Accepted(t)
    BY <1>1 DEF Underway
  <2>2. t.kind = "pin" => ~PinsFollowDevice(File)
    <3>1. /\ At + 1 \in DOMAIN File /\ s = File[At + 1] /\ At \in Nat
          /\ \E i \in DOMAIN File : t = File[i] /\ i < At + 1
      BY <1>0, <1>1, Advance DEF Underway
    <3>2. PICK i \in DOMAIN File : t = File[i] /\ i < At + 1
      BY <3>1
    <3>3. i \in Nat /\ ~(At + 1 < i)
      BY <1>1, <3>1, <3>2, FileTyped
    <3>. QED
      BY <1>1, <3>1, <3>2, <3>3 DEF PinsFollowDevice
  <2>3. t.kind \in Late /\ t \notin ToSet(waiting[t.kind]) => ~Claimed(t)
    BY <1>1, <2>1 DEF Accepted
  <2>4. ~Claimed(t) => ~Claimed(t)'
    BY <1>4, UnclaimedByAll DEF Claimed
  <2>. QED
    BY <1>1, <1>2, <1>3, <1>5, <2>1, <2>2, <2>3, <2>4 DEF Accepted
<1>7. Accepted(s)'
  BY <1>1, <1>2 DEF Accepted, Late
<1>. QED
  BY <1>0, <1>1, <1>2, <1>6, <1>7, AdvanceKeeps

\* What a section before the next one says does not depend on the rest.
LEMMA EarlierKept ==
  ASSUME Held, Underway, phase = "sections", unread # <<>>,
         UNCHANGED <<asked, loaded>>,
         NEW t \in ReadSoFar, config'.device = config.device,
         t.kind = "osc" => config'.port = config.port,
         t.kind = "pin" => config'.policies = config.policies,
         ToSet(config.routes) \subseteq ToSet(config'.routes),
         \A kind \in Late : ToSet(waiting[kind]) \subseteq ToSet(waiting'[kind])
  PROVE  Accepted(t)'
<1>1. Accepted(t) /\ File' = File /\ Device' = Device /\ (Claimed(t)' <=> Claimed(t))
  BY DEF Underway, File, Device, Claimed
<1>2. t.kind \in Late => t \in ToSet(waiting[t.kind]) \/ ~Claimed(t)
  BY <1>1 DEF Accepted
<1>3. t.kind \in Late => t \in ToSet(waiting'[t.kind]) \/ ~Claimed(t)'
  BY <1>1, <1>2
<1>. QED
  BY <1>1, <1>3 DEF Accepted

LEMMA ReadOthersUnderway ==
  ASSUME Held, Underway, ReadOsc \/ ReadRoute \/ ReadPin \/ ReadUnknown, ~Refuse
  PROVE  Underway'
<1>0. PICK s : s = Section
  OBVIOUS
<1>1. /\ phase = "sections" /\ unread # <<>> /\ unread' = Tail(unread)
      /\ UNCHANGED <<asked, loaded, phase, waiting>>
      /\ s.kind \in {"osc", "route", "pin", "unknown"}
  BY <1>0 DEF ReadOsc, ReadRoute, ReadPin, ReadUnknown, Reading, Take
<1>2. /\ config'.device = config.device
      /\ s.kind # "osc" => config'.port = config.port
      /\ s.kind # "pin" => config'.policies = config.policies
      /\ s.kind # "route" => config'.routes = config.routes
      /\ s.kind = "osc" => s.ok /\ config'.port = s.port
      /\ s.kind = "route" => RouteParses(s) /\ config'.routes = Append(config.routes, RouteOf(s))
      /\ s.kind = "pin" =>
           /\ s.ok /\ s.family \in {"input", "output"}
           /\ s.option \in SettableOptions(Device, s.family)
           /\ config'.policies = Pinned(config.policies, <<s.family, s.option>>, s.policy)
  <2>1. CASE ReadOsc
    BY <1>0, <2>1 DEF ReadOsc, Reading, Take, Held, Configs
  <2>2. CASE ReadRoute
    BY <1>0, <2>2 DEF ReadRoute, Reading, Take, Held, Configs
  <2>3. CASE ReadPin
    BY <1>0, <2>3 DEF ReadPin, Reading, Take, Held, Configs, Device
  <2>4. CASE ReadUnknown
    BY <1>0, <2>4 DEF ReadUnknown, Reading, Take
  <2>. QED
    BY <2>1, <2>2, <2>3, <2>4
<1>3. /\ ToSet(config.routes) \subseteq ToSet(config'.routes)
      /\ s.kind = "route" => ToSet(config'.routes) = ToSet(config.routes) \union {RouteOf(s)}
  <2>1. CASE s.kind = "route"
    <3>1. s \in OfKind("route") /\ RouteOf(s) \in Routes
      BY <1>0, <1>1, <1>2, <2>1, HeadAsked DEF OfKind, Routes
    <3>2. config.routes \in Seq(Routes)
      BY DEF Held, Configs
    <3>3. ToSet(Append(config.routes, RouteOf(s))) = ToSet(config.routes) \union {RouteOf(s)}
      BY <3>1, <3>2, AppendOf
    <3>. QED
      BY <1>2, <2>1, <3>3
  <2>2. CASE s.kind # "route"
    BY <1>2, <2>2
  <2>. QED
    BY <2>1, <2>2
<1>4. ASSUME NEW t \in ReadSoFar PROVE Accepted(t)'
  <2>1. t.kind = "osc" => s.kind # "osc"
    BY <1>0, <1>1, OtherKind
  <2>2. t.kind = "pin" => s.kind # "pin"
    BY <1>0, <1>1, OtherKind
  <2>. QED
    BY <1>1, <1>2, <1>3, <2>1, <2>2, EarlierKept
<1>5. Accepted(s)'
  <2>1. CASE s.kind = "pin"
    <3>1. \E f \in Device.flat : f[1] = s.family /\ f[2] = s.option
      BY <1>2, <2>1 DEF SettableOptions
    <3>2. Device' = Device
      BY <1>2 DEF Device
    <3>3. config'.policies[<<s.family, s.option>>] = s.policy
      BY <1>2, <2>1 DEF Pinned
    <3>. QED
      BY <1>2, <2>1, <3>1, <3>2, <3>3 DEF Accepted, Late
  <2>2. CASE s.kind # "pin"
    BY <1>1, <1>2, <1>3, <2>2 DEF Accepted, Late
  <2>. QED
    BY <2>1, <2>2
<1>6. \A r \in ToSet(config'.routes) :
        r \in ToSet(config.routes) \/ (s.kind = "route" /\ RouteParses(s) /\ r = RouteOf(s))
  BY <1>2, <1>3
<1>. QED
  BY <1>0, <1>1, <1>2, <1>4, <1>5, <1>6, AdvanceKeeps

LEMMA CollectUnderway ==
  ASSUME Held, Underway, Collect
  PROVE  Underway'
<1>0. PICK s : s = Section
  OBVIOUS
<1>1. PICK kind \in Late :
        /\ s.kind = kind /\ phase = "sections" /\ unread # <<>>
        /\ waiting' = IF Claimed(s) THEN [waiting EXCEPT ![kind] = Append(@, s)] ELSE waiting
  BY <1>0 DEF Collect, Reading, Late
<1>2. unread' = Tail(unread) /\ UNCHANGED <<asked, loaded, phase, config>>
  BY DEF Collect
<1>3. /\ ToSet(Append(waiting[kind], s)) = ToSet(waiting[kind]) \union {s}
      /\ s \in Asked
  <2>1. s \in Asked /\ waiting[kind] \in Seq(Asked)
    BY <1>0, <1>1, HeadAsked DEF Held, Late
  <2>. QED
    BY <2>1, AppendOf
<1>4. \A k \in Late : /\ ToSet(waiting[k]) \subseteq ToSet(waiting'[k])
                      /\ ToSet(waiting'[k]) \subseteq ToSet(waiting[k]) \union {s}
  <2>. TAKE k \in Late
  <2>1. CASE k = kind
    BY <1>1, <1>3, <2>1 DEF Held, Late
  <2>2. CASE k # kind
    BY <1>1, <2>2
  <2>. QED
    BY <2>1, <2>2
<1>5. ASSUME NEW t \in ReadSoFar PROVE Accepted(t)'
  BY <1>1, <1>2, <1>4, EarlierKept
<1>6. Accepted(s)'
  <2>1. CASE Claimed(s)
    <3>1. s \in ToSet(waiting'[s.kind])
      BY <1>1, <1>3, <2>1 DEF Held, Late
    <3>. QED
      BY <1>1, <3>1 DEF Accepted, Late
  <2>2. CASE ~Claimed(s)
    <3>1. ~Claimed(s)'
      BY <1>2, <2>2 DEF Claimed
    <3>. QED
      BY <1>1, <3>1 DEF Accepted, Late
  <2>. QED
    BY <2>1, <2>2
<1>. QED
  BY <1>0, <1>1, <1>2, <1>4, <1>5, <1>6, AdvanceKeeps

LEMMA OpenFileUnderway ==
  ASSUME Held, OpenFile, ~Refuse
  PROVE  Underway'
<1>1. /\ ~\E i, j \in DOMAIN File : i # j /\ File[i].name = File[j].name
      /\ phase = "open" /\ phase' = "sections"
      /\ unread' = File /\ config' = NoConfig /\ waiting' = NothingWaits
      /\ UNCHANGED <<asked, loaded>>
  BY DEF OpenFile
<1>2. File' = File /\ Len(File) \in Nat /\ DOMAIN File = 1 .. Len(File)
  BY <1>1, FileTyped DEF File
<1>3. At' = 0 /\ ReadSoFar' = {}
  BY <1>1, <1>2 DEF At, ReadSoFar
<1>4. /\ \A kind \in Late : ToSet(waiting'[kind]) = {}
      /\ ToSet(config'.routes) = {} /\ config'.device = DefaultDevice
  BY <1>1 DEF NothingWaits, NoConfig, ToSet, Late
<1>5. \A j \in DOMAIN unread' : At' + j \in DOMAIN File' /\ unread'[j] = File'[At' + j]
  BY <1>1, <1>2, <1>3
<1>6. Distinct(File)' /\ At' \in 0 .. Len(File')
  BY <1>1, <1>2, <1>3 DEF Distinct
<1>. QED
  BY <1>1, <1>3, <1>4, <1>5, <1>6 DEF Underway

----------------------------------------------------------------------------
(* The sections that waited, and the checks at the end.                    *)

\* When nothing is left to read, what was read is the file.
LEMMA AllOfIt ==
  ASSUME Held, Underway, phase \in {"sections", "links"}, unread = <<>>
  PROVE  ReadSoFar = ToSet(File) /\ config.device = NamedDevice(File, DefaultDevice)
<1>1. At = Len(File)
  BY FileTyped DEF At
<1>2. ReadSoFar = ToSet(File)
  BY <1>1, FileTyped DEF ReadSoFar, ToSet
<1>. QED
  BY <1>2, NamedByNow

\* What a section made stays in a config that grows.
LEMMA CountsGrow ==
  ASSUME NEW s, NEW c, NEW d, Counts(s, c),
         d.device = c.device, d.port = c.port, d.routes = c.routes, d.policies = c.policies,
         ToSet(c.channels) \subseteq ToSet(d.channels), ToSet(c.globals) \subseteq ToSet(d.globals)
  PROVE  Counts(s, d)
BY DEF Counts

LEMMA ResolveUnderway ==
  ASSUME Held, Underway, AllRead, NEW kind \in Late, waiting[kind] # <<>>,
         NEW field \in {"globals", "channels"}, NEW made \in Seq(Settings),
         Resolve(kind, field, made),
         NEW s, s = Head(waiting[kind]), Settled(s)'
  PROVE  Underway'
<1>1. /\ phase = "sections" /\ unread = <<>> /\ UNCHANGED <<asked, loaded, phase, unread>>
      /\ waiting' = [waiting EXCEPT ![kind] = Tail(@)]
      /\ config' = [config EXCEPT ![field] = @ \o made]
  BY DEF AllRead, Resolve
<1>2. /\ File' = File /\ At' = At
  BY <1>1 DEF File, At
<1>3. ReadSoFar' = ReadSoFar
  BY <1>2 DEF ReadSoFar
<1>4. /\ config'.device = config.device /\ config'.port = config.port
      /\ config'.routes = config.routes /\ config'.policies = config.policies
  BY <1>1 DEF Held, Configs
<1>5. /\ ToSet(config.channels) \subseteq ToSet(config'.channels)
      /\ ToSet(config.globals) \subseteq ToSet(config'.globals)
  <2>1. ToSet(config'[field]) = ToSet(config[field]) \union ToSet(made)
    BY ResolveHeld DEF Late
  <2>2. \A f \in {"channels", "globals"} : f # field => config'[f] = config[f]
    BY <1>1 DEF Held, Configs
  <2>. QED
    BY <2>1, <2>2
<1>6. Device' = Device
  BY <1>4 DEF Device
<1>7. /\ \A k \in Late : ToSet(waiting'[k]) \subseteq ToSet(waiting[k])
      /\ \A k \in Late : \A t \in ToSet(waiting[k]) : t \in ToSet(waiting'[k]) \/ t = s
  <2>1. waiting[kind] \in Seq(Asked)
    BY DEF Held, Late
  <2>2. /\ ToSet(Tail(waiting[kind])) \subseteq ToSet(waiting[kind])
        /\ \A t \in ToSet(waiting[kind]) : t = s \/ t \in ToSet(Tail(waiting[kind]))
    BY <2>1, TailOf
  <2>3. waiting'[kind] = Tail(waiting[kind]) /\ \A k \in Late : k # kind => waiting'[k] = waiting[k]
    BY <1>1 DEF Held, Late
  <2>. QED
    BY <2>2, <2>3
<1>8. ASSUME NEW t \in ReadSoFar PROVE Accepted(t)'
  <2>1. Accepted(t)
    BY <1>1 DEF Underway
  <2>2. Settled(t) => Settled(t)'
    BY <1>4, <1>5, <1>6, CountsGrow DEF Settled
  <2>3. Claimed(t)' <=> Claimed(t)
    BY <1>4 DEF Claimed
  <2>4. t.kind \in Late => \/ t \in ToSet(waiting'[t.kind])
                           \/ ~Claimed(t)'
                           \/ Settled(t)'
    <3>1. t.kind \in Late => \/ t \in ToSet(waiting[t.kind]) \/ ~Claimed(t) \/ Settled(t)
      BY <2>1 DEF Accepted
    <3>2. t = s => Settled(t)'
      OBVIOUS
    <3>. QED
      BY <1>7, <2>2, <2>3, <3>1, <3>2
  <2>. QED
    BY <1>1, <1>2, <1>4, <1>6, <2>1, <2>4 DEF Accepted
<1>9. \A k \in Late : ToSet(waiting'[k]) \subseteq ToSet(File')
  BY <1>1, <1>2, <1>7 DEF Underway
<1>. QED
  BY <1>1, <1>2, <1>3, <1>4, <1>8, <1>9 DEF Underway

\* The section at the head of a list that waits is one of the file, of the
\* kind of the list.
LEMMA WaitingHead ==
  ASSUME Held, Underway, phase = "sections", NEW kind \in Late, waiting[kind] # <<>>
  PROVE  /\ Head(waiting[kind]) \in AllSections /\ Head(waiting[kind]) \in ToSet(File)
         /\ Head(waiting[kind]).kind = kind
<1>1. waiting[kind] \in Seq(Asked)
  BY DEF Held, Late
<1>2. Head(waiting[kind]) \in Asked /\ Head(waiting[kind]) \in ToSet(waiting[kind])
  BY <1>1, TailOf
<1>. QED
  BY <1>2, AskedTyped DEF Held, Underway, Late

\* A section that is taken from its list with the setting it makes, or without
\* one because the device knows nothing of its family, is settled.
LEMMA ResolvedSettled ==
  ASSUME Held, Underway, phase = "sections",
         NEW kind \in Late, waiting[kind] # <<>>, NEW s, s = Head(waiting[kind]),
         NEW field \in {"globals", "channels"}, NEW made \in Seq(Settings),
         Resolve(kind, field, made), Fits(s, Device),
         \/ kind = "global" /\ <<s.family, s.option>> \notin Device.globals
         \/ kind = "nested" /\ <<s.sub, s.family, s.option, s.channel>> \notin Device.nested
         \/ kind = "channel" /\ <<s.family, s.option, s.channel>> \notin Device.flat
         \/ kind = "global" /\ field = "globals" /\ Message(<<s.family, s.option>>, <<s.value>>) \in ToSet(made)
         \/ /\ kind = "nested" /\ field = "channels"
            /\ Message(<<s.family, s.channel, s.sub, s.option>>, <<s.value>>) \in ToSet(made)
         \/ /\ kind = "channel" /\ field = "channels"
            /\ Message(<<s.family, s.channel, s.option>>, <<s.value>>) \in ToSet(made)
  PROVE  Settled(s)'
<1>1. s.kind = kind /\ kind \in {"global", "nested", "channel"}
  BY WaitingHead DEF Late
<1>2. config'.device = config.device /\ ToSet(made) \subseteq ToSet(config'[field])
  <2>1. ToSet(config'[field]) = ToSet(config[field]) \union ToSet(made)
    BY ResolveHeld DEF Late
  <2>2. config'.device = config.device
    BY DEF Resolve, Held, Configs
  <2>. QED
    BY <2>1, <2>2
<1>3. Device' = Device /\ DeviceForName(config'.device) = Device
  BY <1>2 DEF Device
<1>4. Fits(s, Device')
  BY <1>3
<1>5. Counts(s, config')
  BY <1>1, <1>2, <1>3 DEF Counts
<1>. QED
  BY <1>4, <1>5 DEF Settled

LEMMA ResolveGlobalUnderway ==
  ASSUME Held, Underway, ResolveGlobal, ~Refuse
  PROVE  Underway'
<1>0. PICK s : s = Head(waiting["global"])
  OBVIOUS
<1>. DEFINE m == Message(<<s.family, s.option>>, <<s.value>>)
<1>1. AllRead /\ phase = "sections" /\ "global" \in Late /\ waiting["global"] # <<>>
  BY DEF ResolveGlobal, AllRead, Late
<1>2. s \in AllSections /\ s.kind = "global"
  BY <1>0, <1>1, WaitingHead
<1>3. \/ /\ Resolve("global", "globals", <<>>)
         /\ \A g \in Device.globals : g[1] # s.family
      \/ /\ Resolve("global", "globals", <<m>>)
         /\ s.ok /\ <<s.family, s.option>> \in Device.globals
  BY <1>0 DEF ResolveGlobal
<1>4. Fits(s, Device)
  BY <1>2, <1>3 DEF Fits
<1>5. CASE Resolve("global", "globals", <<>>) /\ \A g \in Device.globals : g[1] # s.family
  <2>1. <<s.family, s.option>> \notin Device.globals
    BY <1>5
  <2>2. Settled(s)'
    BY <1>0, <1>1, <1>2, <1>4, <1>5, <2>1, ResolvedSettled, Singleton
  <2>. QED
    BY <1>0, <1>1, <1>2, <1>5, <2>2, ResolveUnderway, Singleton
<1>6. CASE Resolve("global", "globals", <<m>>)
  <2>1. <<m>> \in Seq(Settings) /\ m \in ToSet(<<m>>)
    BY <1>2, Singleton
  <2>2. Settled(s)'
    BY <1>0, <1>1, <1>4, <1>6, <2>1, ResolvedSettled
  <2>. QED
    BY <1>0, <1>1, <1>6, <2>1, <2>2, ResolveUnderway
<1>. QED
  BY <1>3, <1>5, <1>6

LEMMA ResolveNestedUnderway ==
  ASSUME Held, Underway, ResolveNested, ~Refuse
  PROVE  Underway'
<1>0. PICK s : s = Head(waiting["nested"])
  OBVIOUS
<1>. DEFINE m == Message(<<s.family, s.channel, s.sub, s.option>>, <<s.value>>)
<1>1. AllRead /\ phase = "sections" /\ "nested" \in Late /\ waiting["nested"] # <<>>
  BY DEF ResolveNested, AllRead, Late
<1>2. s \in AllSections /\ s.kind = "nested"
  BY <1>0, <1>1, WaitingHead
<1>3. \/ /\ Resolve("nested", "channels", <<>>)
         /\ <<s.sub, s.family>> \notin Device.families
         /\ \A n \in Device.nested : ~(n[1] = s.sub /\ n[2] = s.family)
      \/ /\ Resolve("nested", "channels", <<m>>)
         /\ s.ok /\ <<s.sub, s.family, s.option, s.channel>> \in Device.nested
  BY <1>0 DEF ResolveNested
<1>4. Fits(s, Device)
  BY <1>2, <1>3 DEF Fits
<1>5. CASE /\ Resolve("nested", "channels", <<>>)
           /\ \A n \in Device.nested : ~(n[1] = s.sub /\ n[2] = s.family)
  <2>1. <<s.sub, s.family, s.option, s.channel>> \notin Device.nested
    BY <1>5
  <2>2. Settled(s)'
    BY <1>0, <1>1, <1>2, <1>4, <1>5, <2>1, ResolvedSettled, Singleton
  <2>. QED
    BY <1>0, <1>1, <1>2, <1>5, <2>2, ResolveUnderway, Singleton
<1>6. CASE Resolve("nested", "channels", <<m>>)
  <2>1. <<m>> \in Seq(Settings) /\ m \in ToSet(<<m>>)
    BY <1>2, Singleton
  <2>2. Settled(s)'
    BY <1>0, <1>1, <1>4, <1>6, <2>1, ResolvedSettled
  <2>. QED
    BY <1>0, <1>1, <1>6, <2>1, <2>2, ResolveUnderway
<1>. QED
  BY <1>3, <1>5, <1>6

LEMMA ResolveChannelUnderway ==
  ASSUME Held, Underway, ResolveChannel, ~Refuse
  PROVE  Underway'
<1>0. PICK s : s = Head(waiting["channel"])
  OBVIOUS
<1>. DEFINE m == Message(<<s.family, s.channel, s.option>>, <<s.value>>)
<1>1. AllRead /\ phase = "sections" /\ "channel" \in Late /\ waiting["channel"] # <<>>
  BY DEF ResolveChannel, AllRead, Late
<1>2. s \in AllSections /\ s.kind = "channel"
  BY <1>0, <1>1, WaitingHead
<1>3. \/ /\ Resolve("channel", "channels", <<>>)
         /\ \A f \in Device.flat : f[1] # s.family
      \/ /\ Resolve("channel", "channels", <<m>>)
         /\ s.ok /\ <<s.family, s.option, s.channel>> \in Device.flat
  BY <1>0 DEF ResolveChannel, SettableOptions
<1>4. Fits(s, Device)
  BY <1>2, <1>3 DEF Fits
<1>5. CASE Resolve("channel", "channels", <<>>) /\ \A f \in Device.flat : f[1] # s.family
  <2>1. <<s.family, s.option, s.channel>> \notin Device.flat
    BY <1>5
  <2>2. Settled(s)'
    BY <1>0, <1>1, <1>2, <1>4, <1>5, <2>1, ResolvedSettled, Singleton
  <2>. QED
    BY <1>0, <1>1, <1>2, <1>5, <2>2, ResolveUnderway, Singleton
<1>6. CASE Resolve("channel", "channels", <<m>>)
  <2>1. <<m>> \in Seq(Settings) /\ m \in ToSet(<<m>>)
    BY <1>2, Singleton
  <2>2. Settled(s)'
    BY <1>0, <1>1, <1>4, <1>6, <2>1, ResolvedSettled
  <2>. QED
    BY <1>0, <1>1, <1>6, <2>1, <2>2, ResolveUnderway
<1>. QED
  BY <1>3, <1>5, <1>6

----------------------------------------------------------------------------
(* The verdict.                                                            *)

\* What a loaded file has come to.
Good(k) ==
  /\ \A s \in ToSet(asked[k]) : Counts(s, loaded[k])
  /\ loaded[k].device = NamedDevice(asked[k], DefaultDevice)
  /\ PinsFollowDevice(asked[k]) => FitFor(asked[k], DeviceForName(loaded[k].device))
  /\ LinksAgree(loaded[k].routes)

Unfit ==
  phase = "refused" /\ Len(asked) = 1 /\ PinsFollowDevice(asked[1]) =>
    ~FitFor(asked[1], DeviceForName(NamedDevice(asked[1], DefaultDevice)))

\* When everything has been read and resolved, every section of the file is in
\* the config and fits.
LEMMA AllAccepted ==
  ASSUME DefaultKnowsAll, Held, Underway, phase = "links", NEW s \in ToSet(File)
  PROVE  /\ Counts(s, config)
         /\ PinsFollowDevice(File) => Fits(s, Device)
<1>1. unread = <<>> /\ waiting = NothingWaits /\ ChannelsExist(config.routes, Device)
  BY DEF Underway
<1>2. Accepted(s)
  BY <1>1, AllOfIt DEF Underway
<1>3. \A kind \in Late : ToSet(waiting[kind]) = {}
  BY <1>1 DEF NothingWaits, ToSet, Late
<1>4. ASSUME s.kind \in Late PROVE Counts(s, config) /\ Fits(s, Device)
  <2>1. ~Claimed(s) \/ Settled(s)
    BY <1>2, <1>3, <1>4 DEF Accepted
  <2>2. ASSUME ~Claimed(s) PROVE Counts(s, config) /\ Fits(s, Device)
    <3>1. \/ s.kind = "global" /\ \A g \in Device.globals : g[1] # s.family
          \/ s.kind = "nested" /\ <<s.sub, s.family>> \notin Device.families
      BY <1>4, <2>2 DEF Claimed, Device, Late
    <3>2. s.kind = "global" => <<s.family, s.option>> \notin Device.globals
      BY <3>1
    <3>3. s.kind = "nested" => <<s.sub, s.family, s.option, s.channel>> \notin Device.nested
      <4>1. \A n \in Device.nested : <<n[1], n[2]>> \in Device.families
        BY DEF DefaultKnowsAll, Device, DeviceForName
      <4>. QED
        BY <3>1, <4>1
    <3>4. Counts(s, config)
      BY <3>1, <3>2, <3>3 DEF Counts, Device
    <3>5. Fits(s, Device)
      BY <3>1 DEF Fits
    <3>. QED
      BY <3>4, <3>5
  <2>. QED
    BY <2>1, <2>2 DEF Settled
<1>5. ASSUME s.kind \notin Late PROVE Counts(s, config)
  BY <1>2, <1>5 DEF Accepted, Counts, Late
<1>6. ASSUME s.kind \notin Late, PinsFollowDevice(File) PROVE Fits(s, Device)
  <2>1. CASE s.kind = "route"
    <3>1. RouteParses(s) /\ RouteOf(s) \in ToSet(config.routes)
      BY <1>2, <2>1 DEF Accepted
    <3>2. ToSet(<<RouteOf(s)>>) = {RouteOf(s)}
      BY DEF ToSet
    <3>3. ChannelsExist(<<RouteOf(s)>>, Device)
      BY <1>1, <3>1, <3>2 DEF ChannelsExist
    <3>. QED
      BY <2>1, <3>1, <3>3 DEF Fits
  <2>2. CASE s.kind = "pin"
    BY <1>2, <1>6, <2>2 DEF Accepted, Fits
  <2>3. CASE s.kind \notin {"route", "pin"}
    BY <1>2, <1>6, <2>3 DEF Accepted, Fits, Late
  <2>. QED
    BY <2>1, <2>2, <2>3
<1>. QED
  BY <1>4, <1>5, <1>6

\* The routes of two sections, as the config has them.
LEMMA PairAgrees ==
  ASSUME NEW routes, NEW r, NEW q, LinksAgree(routes), r \in ToSet(routes), q \in ToSet(routes)
  PROVE  LinksAgree(<<r, q>>)
<1>1. ToSet(<<r, q>>) = {r, q}
  BY DEF ToSet
<1>. QED
  BY <1>1 DEF LinksAgree

LEMMA LoadedGood ==
  ASSUME DefaultKnowsAll, Held, Underway, phase = "links", LinksAgree(config.routes)
  PROVE  /\ \A s \in ToSet(File) : Counts(s, config)
         /\ config.device = NamedDevice(File, DefaultDevice)
         /\ PinsFollowDevice(File) => FitFor(File, DeviceForName(config.device))
<1>1. config.device = NamedDevice(File, DefaultDevice)
  BY AllOfIt DEF Underway
<1>2. ASSUME PinsFollowDevice(File) PROVE FitFor(File, Device)
  <2>1. \A s \in ToSet(File) : Fits(s, Device)
    BY <1>2, AllAccepted
  <2>2. ASSUME NEW s \in ToSet(File), NEW t \in ToSet(File), s.kind = "route", t.kind = "route"
        PROVE  LinksAgree(<<RouteOf(s), RouteOf(t)>>)
    <3>1. RouteOf(s) \in ToSet(config.routes) /\ RouteOf(t) \in ToSet(config.routes)
      BY <2>2, AllAccepted DEF Counts
    <3>. QED
      BY <3>1, PairAgrees
  <2>. QED
    BY <2>1, <2>2 DEF FitFor, Underway, Distinct
<1>. QED
  BY <1>1, <1>2, AllAccepted DEF Device

\* A section that does not fit makes the file unfit.
LEMMA UnfitByOne ==
  ASSUME Held, Refuse,
         PinsFollowDevice(File) => ~FitFor(File, DeviceForName(NamedDevice(File, DefaultDevice))),
         phase \in {"open", "sections", "links"}
  PROVE  Unfit'
<1>1. Len(asked) = 1 => File = asked[1]
  <2>1. Len(asked) = 1 => Len(loaded) = 0
    <3>1. Len(loaded) \in Nat /\ Len(loaded) + 1 \in 1 .. Len(asked)
      BY FileTyped, AskedTyped DEF Held
    <3>. QED
      BY <3>1
  <2>. QED
    BY <2>1 DEF File
<1>. QED
  BY <1>1 DEF Refuse, Unfit

\* The next section is refused for what it says, or for the device it is for.
LEMMA ReadRefused ==
  ASSUME Held, Underway, phase = "sections", unread # <<>>, Refuse,
         ReadDevice \/ ReadOsc \/ ReadRoute \/ ReadPin
  PROVE  Unfit'
<1>. DEFINE device == DeviceForName(NamedDevice(File, DefaultDevice))
<1>0. PICK s : s = Section
  OBVIOUS
<1>1. /\ At \in 0 .. Len(File) /\ At + 1 \in DOMAIN File /\ s = File[At + 1]
      /\ DOMAIN File = 1 .. Len(File) /\ Len(File) \in Nat
  <2>1. unread \in Seq(Asked)
    BY DEF Held
  <2>2. 1 \in DOMAIN unread /\ Head(unread) = unread[1]
    BY <2>1
  <2>. QED
    BY <1>0, <2>2, FileTyped DEF Underway, Section
<1>2. s \in ToSet(File)
  BY <1>1 DEF ToSet
<1>3. unread' # Tail(unread)
  BY DEF Refuse, Held
<1>4. ReadDevice \/ ReadOsc \/ ReadRoute => ~Fits(s, device)
  <2>1. ReadDevice => s.kind = "device" /\ ~s.ok
    BY <1>0, <1>3 DEF ReadDevice, Reading, Take
  <2>2. ReadOsc => s.kind = "osc" /\ ~s.ok
    BY <1>0, <1>3 DEF ReadOsc, Reading, Take
  <2>3. ReadRoute => s.kind = "route" /\ ~RouteParses(s)
    BY <1>0, <1>3 DEF ReadRoute, Reading, Take
  <2>. QED
    BY <2>1, <2>2, <2>3 DEF Fits
<1>5. ASSUME ReadPin, PinsFollowDevice(File) PROVE ~Fits(s, device)
  <2>1. /\ s.kind = "pin"
        /\ ~(/\ s.ok /\ s.family \in {"input", "output"}
             /\ s.option \in SettableOptions(DeviceForName(config.device), s.family))
    BY <1>0, <1>3, <1>5 DEF ReadPin, Reading, Take
  <2>2. ASSUME NEW t \in ToSet(File), t.kind = "device" PROVE t \in ReadSoFar
    <3>1. PICK i \in DOMAIN File : t = File[i]
      BY DEF ToSet
    <3>2. i < At + 1
      BY <1>1, <1>5, <2>1, <2>2, <3>1 DEF PinsFollowDevice
    <3>3. i \in 1 .. At
      BY <1>1, <3>1, <3>2
    <3>. QED
      BY <3>1, <3>3 DEF ReadSoFar
  <2>3. config.device = NamedDevice(File, DefaultDevice)
    BY <2>2, NamedByNow
  <2>. QED
    BY <2>1, <2>3 DEF Fits, SettableOptions
<1>6. PinsFollowDevice(File) => ~Fits(s, device)
  BY <1>4, <1>5
<1>7. PinsFollowDevice(File) => ~FitFor(File, device)
  BY <1>2, <1>6 DEF FitFor
<1>. QED
  BY <1>7, UnfitByOne

LEMMA ResolveRefused ==
  ASSUME DefaultKnowsAll, Held, Underway, Refuse,
         ResolveGlobal \/ ResolveNested \/ ResolveChannel
  PROVE  Unfit'
<1>0. phase' # phase
  BY DEF Refuse, ResolveGlobal, ResolveNested, ResolveChannel, AllRead
<1>1. AllRead /\ phase = "sections" /\ config.device = NamedDevice(File, DefaultDevice)
  BY AllOfIt DEF ResolveGlobal, ResolveNested, ResolveChannel, AllRead
<1>2. \E s \in ToSet(File) : ~Fits(s, Device)
  <2>1. CASE ResolveGlobal
    <3>0. PICK s : s = Head(waiting["global"])
      OBVIOUS
    <3>1. s \in ToSet(File) /\ s.kind = "global"
      BY <1>1, <2>1, <3>0, WaitingHead DEF ResolveGlobal, Late
    <3>2. /\ \E g \in Device.globals : g[1] = s.family
          /\ ~(s.ok /\ <<s.family, s.option>> \in Device.globals)
      BY <1>0, <2>1, <3>0 DEF ResolveGlobal, Resolve
    <3>. QED
      BY <3>1, <3>2 DEF Fits
  <2>2. CASE ResolveNested
    <3>0. PICK s : s = Head(waiting["nested"])
      OBVIOUS
    <3>1. s \in ToSet(File) /\ s.kind = "nested"
      BY <1>1, <2>2, <3>0, WaitingHead DEF ResolveNested, Late
    <3>2. /\ \/ \E n \in Device.nested : n[1] = s.sub /\ n[2] = s.family
             \/ <<s.sub, s.family>> \in Device.families
          /\ ~(s.ok /\ <<s.sub, s.family, s.option, s.channel>> \in Device.nested)
      BY <1>0, <2>2, <3>0 DEF ResolveNested, Resolve
    <3>3. <<s.sub, s.family>> \in Device.families
      <4>1. \A n \in Device.nested : <<n[1], n[2]>> \in Device.families
        BY DEF DefaultKnowsAll, Device, DeviceForName
      <4>. QED
        BY <3>2, <4>1
    <3>. QED
      BY <3>1, <3>2, <3>3 DEF Fits
  <2>3. CASE ResolveChannel
    <3>0. PICK s : s = Head(waiting["channel"])
      OBVIOUS
    <3>1. s \in ToSet(File) /\ s.kind = "channel"
      BY <1>1, <2>3, <3>0, WaitingHead DEF ResolveChannel, Late
    <3>2. /\ \E f \in Device.flat : f[1] = s.family
          /\ ~(s.ok /\ <<s.family, s.option, s.channel>> \in Device.flat)
      BY <1>0, <2>3, <3>0 DEF ResolveChannel, Resolve, SettableOptions
    <3>. QED
      BY <3>1, <3>2 DEF Fits
  <2>. QED
    BY <2>1, <2>2, <2>3
<1>3. ~FitFor(File, DeviceForName(NamedDevice(File, DefaultDevice)))
  BY <1>1, <1>2 DEF FitFor, Device
<1>. QED
  BY <1>1, <1>3, UnfitByOne

LEMMA ChecksRefused ==
  ASSUME Held, Underway, Refuse, CheckDeviceChannels \/ CheckLinkAgreement
  PROVE  Unfit'
<1>0. phase' # phase /\ phase' = "refused"
  BY DEF Refuse, CheckDeviceChannels, CheckLinkAgreement, AllRead
<1>1. unread = <<>> /\ phase \in {"sections", "links"}
  BY DEF CheckDeviceChannels, CheckLinkAgreement, AllRead, Underway
<1>2. config.device = NamedDevice(File, DefaultDevice)
  BY <1>1, AllOfIt
<1>3. \A r \in ToSet(config.routes) :
        \E s \in ToSet(File) : s.kind = "route" /\ RouteParses(s) /\ r = RouteOf(s)
  BY <1>1 DEF Underway
<1>4. CASE CheckDeviceChannels
  <2>1. ~ChannelsExist(config.routes, Device)
    BY <1>0, <1>4 DEF CheckDeviceChannels
  <2>2. PICK r \in ToSet(config.routes) : ~ChannelsExist(<<r>>, Device)
    <3>1. \A r : ToSet(<<r>>) = {r}
      BY DEF ToSet
    <3>. QED
      BY <2>1, <3>1 DEF ChannelsExist
  <2>3. PICK s \in ToSet(File) : s.kind = "route" /\ r = RouteOf(s)
    BY <1>3
  <2>4. ~Fits(s, Device)
    BY <2>2, <2>3 DEF Fits
  <2>5. ~FitFor(File, DeviceForName(NamedDevice(File, DefaultDevice)))
    BY <1>2, <2>4 DEF FitFor, Device
  <2>. QED
    BY <1>1, <2>5, UnfitByOne
<1>5. CASE CheckLinkAgreement
  <2>1. ~LinksAgree(config.routes)
    BY <1>0, <1>5, AskedTyped DEF CheckLinkAgreement, Held
  <2>2. PICK r \in ToSet(config.routes), q \in ToSet(config.routes) : ~LinksAgree(<<r, q>>)
    <3>1. \A r, q : ToSet(<<r, q>>) = {r, q}
      BY DEF ToSet
    <3>. QED
      BY <2>1, <3>1 DEF LinksAgree
  <2>3. PICK s \in ToSet(File) : s.kind = "route" /\ r = RouteOf(s)
    BY <1>3
  <2>4. PICK t \in ToSet(File) : t.kind = "route" /\ q = RouteOf(t)
    BY <1>3
  <2>5. ~FitFor(File, DeviceForName(NamedDevice(File, DefaultDevice)))
    BY <2>2, <2>3, <2>4 DEF FitFor
  <2>. QED
    BY <1>1, <2>5, UnfitByOne
<1>. QED
  BY <1>4, <1>5

LEMMA OpenRefused ==
  ASSUME Held, OpenFile, Refuse
  PROVE  Unfit'
<1>1. phase = "open" /\ \E i, j \in DOMAIN File : i # j /\ File[i].name = File[j].name
  BY DEF OpenFile, Refuse
<1>. QED
  BY <1>1, UnfitByOne DEF FitFor

LoadInv == Held /\ Underway /\ Unfit /\ \A k \in DOMAIN loaded : Good(k)

LEMMA LinksChecked ==
  ASSUME DefaultKnowsAll, LoadInv, CheckLinkAgreement, ~Refuse
  PROVE  LoadInv'
<1>1. /\ phase = "links" /\ LinksAgree(config.routes)
      /\ loaded' = Append(loaded, config) /\ asked' = asked /\ phase' \in {"open", "loaded"}
  BY DEF CheckLinkAgreement
<1>2. Held' /\ loaded \in Seq(Configs) /\ config \in Configs
  BY HeldStep DEF LoadInv, Held, Next
<1>3. /\ DOMAIN loaded' = DOMAIN loaded \union {Len(loaded) + 1}
      /\ loaded'[Len(loaded) + 1] = config
      /\ \A k \in DOMAIN loaded : loaded'[k] = loaded[k]
  BY <1>1, <1>2
<1>4. \A k \in DOMAIN loaded : Good(k)'
  BY <1>1, <1>3 DEF LoadInv, Good
<1>5. ASSUME NEW k, k = Len(loaded) + 1 PROVE Good(k)'
  <2>1. asked'[k] = File /\ loaded'[k] = config
    BY <1>1, <1>3, <1>5 DEF File
  <2>2. /\ \A s \in ToSet(File) : Counts(s, config)
        /\ config.device = NamedDevice(File, DefaultDevice)
        /\ PinsFollowDevice(File) => FitFor(File, DeviceForName(config.device))
    BY <1>1, LoadedGood DEF LoadInv
  <2>. QED
    BY <1>1, <2>1, <2>2 DEF Good
<1>. QED
  BY <1>1, <1>2, <1>3, <1>4, <1>5 DEF LoadInv, Underway, Unfit

LEMMA LoadStep == DefaultKnowsAll /\ LoadInv /\ [Next]_vars => LoadInv'
<1>. SUFFICES ASSUME DefaultKnowsAll, LoadInv, [Next]_vars PROVE LoadInv'
  OBVIOUS
<1>1. Held /\ Underway /\ Held'
  BY HeldStep DEF LoadInv
<1>2. ASSUME UNCHANGED <<asked, loaded>>, Underway', Unfit' PROVE LoadInv'
  BY <1>1, <1>2 DEF LoadInv, Good
<1>3. ASSUME Refuse, Unfit' PROVE LoadInv'
  BY <1>2, <1>3 DEF Refuse, Underway
<1>4. ASSUME UNCHANGED <<asked, loaded>>, Underway', phase' # "refused" PROVE LoadInv'
  BY <1>2, <1>4 DEF Unfit
<1>5. CASE OpenFile
  BY <1>1, <1>3, <1>4, <1>5, OpenRefused, OpenFileUnderway DEF OpenFile
<1>6. CASE ReadDevice \/ ReadOsc \/ ReadRoute \/ ReadPin \/ ReadUnknown
  <2>1. phase = "sections" /\ unread # <<>>
    BY <1>6 DEF ReadDevice, ReadOsc, ReadRoute, ReadPin, ReadUnknown, Reading
  <2>2. Refuse \/ UNCHANGED <<asked, loaded, phase>>
    BY <1>6 DEF ReadDevice, ReadOsc, ReadRoute, ReadPin, ReadUnknown, Take
  <2>3. CASE Refuse
    <3>1. ~ReadUnknown
      BY <2>1, <2>3 DEF Refuse, ReadUnknown, Take
    <3>. QED
      BY <1>1, <1>3, <1>6, <2>1, <2>3, <3>1, ReadRefused
  <2>4. CASE ~Refuse
    BY <1>1, <1>4, <1>6, <2>1, <2>2, <2>4, ReadDeviceUnderway, ReadOthersUnderway
  <2>. QED
    BY <2>3, <2>4
<1>7. CASE Collect
  <2>1. UNCHANGED <<asked, loaded, phase>> /\ phase = "sections"
    BY <1>7 DEF Collect, Reading
  <2>. QED
    BY <1>1, <1>4, <1>7, <2>1, CollectUnderway
<1>8. CASE ResolveGlobal \/ ResolveNested \/ ResolveChannel
  <2>1. phase = "sections" /\ (Refuse \/ UNCHANGED <<asked, loaded, phase>>)
    BY <1>8 DEF ResolveGlobal, ResolveNested, ResolveChannel, AllRead, Resolve
  <2>2. CASE Refuse
    BY <1>1, <1>3, <1>8, <2>2, ResolveRefused
  <2>3. CASE ~Refuse
    BY <1>1, <1>4, <1>8, <2>1, <2>3, ResolveGlobalUnderway, ResolveNestedUnderway, ResolveChannelUnderway
  <2>. QED
    BY <2>2, <2>3
<1>9. CASE CheckDeviceChannels
  <2>1. CASE Refuse
    BY <1>1, <1>3, <1>9, <2>1, ChecksRefused
  <2>2. CASE ~Refuse
    <3>1. /\ AllRead /\ waiting = NothingWaits /\ ChannelsExist(config.routes, Device)
          /\ phase' = "links" /\ UNCHANGED <<asked, loaded, unread, config, waiting>>
      BY <1>9, <2>2 DEF CheckDeviceChannels
    <3>2. Underway'
      <4>1. /\ File' = File /\ At' = At /\ Device' = Device
            /\ \A s : Claimed(s)' <=> Claimed(s)
        BY <3>1 DEF File, At, Device, Claimed
      <4>2. ReadSoFar' = ReadSoFar
        BY <4>1 DEF ReadSoFar
      <4>3. \A s : Settled(s)' <=> Settled(s)
        BY <3>1, <4>1 DEF Settled
      <4>4. \A s : Accepted(s) => Accepted(s)'
        BY <3>1, <4>1, <4>3 DEF Accepted
      <4>. QED
        BY <1>1, <3>1, <4>1, <4>2, <4>4 DEF Underway, AllRead
    <3>. QED
      BY <1>4, <3>1, <3>2
  <2>. QED
    BY <2>1, <2>2
<1>10. CASE CheckLinkAgreement
  BY <1>1, <1>3, <1>10, ChecksRefused, LinksChecked
<1>11. CASE UNCHANGED vars
  <2>1. /\ File' = File /\ At' = At /\ Device' = Device
        /\ \A s : Claimed(s)' <=> Claimed(s)
    BY <1>11 DEF File, At, Device, Claimed, vars
  <2>2. ReadSoFar' = ReadSoFar
    BY <2>1 DEF ReadSoFar
  <2>3. \A s : Settled(s)' <=> Settled(s)
    BY <1>11, <2>1 DEF Settled, vars
  <2>4. \A s : Accepted(s) => Accepted(s)'
    BY <1>11, <2>1, <2>3 DEF Accepted, vars
  <2>5. Underway'
    BY <1>1, <1>11, <2>1, <2>2, <2>4 DEF Underway, vars
  <2>6. Unfit'
    BY <1>11 DEF LoadInv, Unfit, vars
  <2>. QED
    BY <1>2, <1>11, <2>5, <2>6 DEF vars
<1>. QED
  BY <1>5, <1>6, <1>7, <1>8, <1>9, <1>10, <1>11 DEF Next

LEMMA LoadInit == Init => LoadInv
<1>. SUFFICES ASSUME Init PROVE LoadInv
  OBVIOUS
<1>1. DOMAIN loaded = {} /\ phase = "open"
  BY DEF Init
<1>. QED
  BY <1>1, HeldInit DEF LoadInv, Underway, Unfit

LEMMA Loading == DefaultKnowsAll => (Spec => []LoadInv)
<1>. SUFFICES ASSUME DefaultKnowsAll PROVE Spec => []LoadInv
  OBVIOUS
<1>1. LoadInv /\ [Next]_vars => LoadInv'
  BY LoadStep
<1>. QED
  BY LoadInit, <1>1, PTL DEF Spec

\* Nothing of an accepted file is dropped without a word: every section is in
\* the config, or names what its device does not have (_dispatch, _parse_*).
THEOREM NothingIsDropped == DefaultKnowsAll => (Spec => []EverySectionCounts)
<1>1. LoadInv => EverySectionCounts
  <2>. SUFFICES ASSUME LoadInv, phase = "loaded", NEW k \in DOMAIN asked
                PROVE  \A s \in ToSet(asked[k]) : Counts(s, loaded[k])
    BY DEF EverySectionCounts
  <2>1. k \in DOMAIN loaded
    <3>1. loaded \in Seq(Configs) /\ Len(loaded) = Len(asked)
      BY DEF LoadInv, Held
    <3>. QED
      BY <3>1, AskedTyped DEF LoadInv, Held
  <2>. QED
    BY <2>1 DEF LoadInv, Good
<1>. QED
  BY <1>1, Loading, PTL

\* A file is accepted exactly when its sections fit the device it names, in
\* whatever order they come (load_config).
THEOREM OrderDoesNotDecide == DefaultKnowsAll => (Spec => []VerdictIgnoresOrder)
<1>1. LoadInv => VerdictIgnoresOrder
  <2>. SUFFICES ASSUME LoadInv, Len(asked) = 1, PinsFollowDevice(asked[1])
                PROVE  LET fit == FitFor(asked[1], DeviceForName(NamedDevice(asked[1], DefaultDevice)))
                       IN  (phase = "loaded" => fit) /\ (phase = "refused" => ~fit)
    BY DEF VerdictIgnoresOrder
  <2>1. ASSUME phase = "loaded"
        PROVE  FitFor(asked[1], DeviceForName(NamedDevice(asked[1], DefaultDevice)))
    <3>1. loaded \in Seq(Configs) /\ Len(loaded) = 1
      BY <2>1 DEF LoadInv, Held
    <3>2. 1 \in DOMAIN loaded
      BY <3>1
    <3>. QED
      BY <3>2 DEF LoadInv, Good
  <2>. QED
    BY <2>1 DEF LoadInv, Unfit
<1>. QED
  BY <1>1, Loading, PTL

----------------------------------------------------------------------------
(* One link value for one pair.                                            *)

\* A stereo register is told by its kind of channel and its number.
LEMMA StereosDiffer ==
  ASSUME NEW k, NEW x, NEW l, NEW y, Stereo(k, x) = Stereo(l, y)
  PROVE  k = l /\ x = y
<1>1. Stereo(k, x)[1] = k /\ Stereo(k, x)[2] = x /\ Stereo(l, y)[1] = l /\ Stereo(l, y)[2] = y
  BY DEF Stereo
<1>. QED
  BY <1>1

\* Of two routes that agree, the messages about one link do.
LEMMA LinksOfRoutes ==
  ASSUME NEW q \in Routes, NEW r \in Routes, LinksAgree(<<q, r>>),
         HardwarePair(q), HardwarePair(r),
         NEW m \in ToSet(LinkMessages(q)), NEW n \in ToSet(LinkMessages(r)), m.reg = n.reg
  PROVE  m.args = n.args
<1>1. ASSUME NEW p \in Routes, NEW l \in ToSet(LinkMessages(p))
      PROVE  /\ Len(p.output) = 2 /\ p.output \in Seq(Int)
             /\ \/ /\ l.reg = Stereo(p.kind, p.source[1]) /\ p.kind \in {"playback", "input"}
                   /\ l.args = <<1>>
                \/ /\ l.reg = Stereo("output", p.output[1])
                   /\ l.args = <<IF p.stereo THEN 1 ELSE 0>>
  <2>1. Len(p.output) = 2 /\ l \in {Message(Stereo(p.kind, p.source[1]), <<1>>),
                                    Message(Stereo("output", p.output[1]), <<IF p.stereo THEN 1 ELSE 0>>)}
    BY <1>1 DEF LinkMessages, ToSet
  <2>2. PICK s \in OfKind("route") : p = RouteOf(s)
    BY DEF Routes
  <2>3. p.output \in Seq(Int) /\ p.kind \in {"playback", "input"}
    BY <2>2, ConfigConstants DEF RouteOf, OfKind
  <2>. QED
    BY <2>1, <2>3 DEF Message
<1>2. CASE m.reg = Stereo("output", q.output[1]) /\ m.args = <<IF q.stereo THEN 1 ELSE 0>>
  <2>1. n.reg = Stereo("output", r.output[1]) /\ n.args = <<IF r.stereo THEN 1 ELSE 0>>
    <3>1. \A k : Stereo("output", q.output[1]) = Stereo(k, r.source[1]) => k = "output"
      BY StereosDiffer
    <3>. QED
      BY <1>1, <1>2, <3>1
  <2>2. q.output[1] = r.output[1]
    <3>1. Stereo("output", q.output[1]) = Stereo("output", r.output[1])
      BY <1>2, <2>1
    <3>2. \A x, y : Stereo("output", x) = Stereo("output", y) => x = y
      BY StereosDiffer
    <3>. QED
      BY <3>1, <3>2, Zenon
  <2>3. q.output = r.output
    <3>1. /\ Len(q.output) = 2 /\ q.output \in Seq(Int) /\ q.output[2] = q.output[1] + 1
          /\ Len(r.output) = 2 /\ r.output \in Seq(Int) /\ r.output[2] = r.output[1] + 1
      BY <1>1 DEF HardwarePair
    <3>. QED
      BY <2>2, <3>1
  <2>4. q.stereo = r.stereo
    <3>1. ToSet(<<q, r>>) = {q, r}
      BY DEF ToSet
    <3>. QED
      BY <1>1, <2>3, <3>1 DEF LinksAgree
  <2>. QED
    BY <1>2, <2>1, <2>4
<1>3. CASE m.reg = Stereo(q.kind, q.source[1]) /\ q.kind \in {"playback", "input"} /\ m.args = <<1>>
  <2>1. n.args = <<1>>
    <3>1. \A k : Stereo(k, q.source[1]) = Stereo("output", r.output[1]) => k = "output"
      BY StereosDiffer
    <3>. QED
      BY <1>1, <1>3, <3>1
  <2>. QED
    BY <1>3, <2>1
<1>. QED
  BY <1>1, <1>2, <1>3

\* A loaded config sends one output pair one link value, whatever routes share
\* it, for a profile beside its main file too (_check_link_agreement).
THEOREM PairsAgree == DefaultKnowsAll => (Spec => []OneLinkPerPair)
<1>1. LoadInv => OneLinkPerPair
  <2>. SUFFICES ASSUME LoadInv, phase = "loaded", \A r \in ToSet(Result.routes) : HardwarePair(r),
                       NEW m \in LinksOf(Result.routes), NEW n \in LinksOf(Result.routes), m.reg = n.reg
                PROVE  m.args = n.args
    BY DEF OneLinkPerPair
  <2>1. loaded \in Seq(Configs) /\ Len(loaded) = Len(asked) /\ Len(asked) \in {1, 2}
    BY AskedTyped DEF LoadInv, Held
  <2>2. 1 \in DOMAIN loaded /\ loaded[1] \in Configs
    BY <2>1
  <2>3. Result.routes = loaded[1].routes
    BY <2>2 DEF Result, InheritTransport, Configs
  <2>4. loaded[1].routes \in Seq(Routes) /\ LinksAgree(loaded[1].routes)
    BY <2>2 DEF Configs, LoadInv, Good
  <2>5. PICK q \in ToSet(Result.routes) : m \in ToSet(LinkMessages(q))
    BY DEF LinksOf
  <2>6. PICK r \in ToSet(Result.routes) : n \in ToSet(LinkMessages(r))
    BY DEF LinksOf
  <2>7. q \in Routes /\ r \in Routes
    <3>1. \A x \in ToSet(loaded[1].routes) : x \in Routes
      BY <2>4 DEF ToSet
    <3>. QED
      BY <2>3, <2>5, <2>6, <3>1
  <2>8. LinksAgree(<<q, r>>)
    BY <2>3, <2>4, <2>5, <2>6, PairAgrees
  <2>. QED
    BY <2>5, <2>6, <2>7, <2>8, LinksOfRoutes
<1>. QED
  BY <1>1, Loading, PTL

=============================================================================
