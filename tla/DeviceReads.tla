----------------------------- MODULE DeviceReads -----------------------------
(***************************************************************************)
(* The two commands that ask a running backend what the device holds:      *)
(* --dump-config, which writes the answer as a routing.conf, and --diff,   *)
(* which compares it with one (cli.py, reconcile.py, ADR 0002 and 0012).   *)
(* A person at the keyboard runs them in any order, puts a dumped file in  *)
(* place, starts a session with it, or turns a knob while a dump streams.  *)
(*                                                                         *)
(* A register is a tuple and a report the tuple of its arguments, as in    *)
(* RoutingPlan.  Of a file, the routes and the live settings are kept; the *)
(* commented lines are what a load does not see.                           *)
(***************************************************************************)
EXTENDS RoutingPlan, FiniteSets

CONSTANTS
  Bursts,    \* the registers of a dump, in the order they are reported
  Blank,     \* the device nothing has been applied to
  Configs,   \* the routing.conf files a desk may have been built from
  Kinds,     \* "playback", "input", "output" -> its channels
  Matrix,    \* the cells of the input matrix, output by output
  Pinned,    \* the registers the model pins
  Settable,  \* the registers a channel or a global section may set
  Names,     \* enum register -> the values that have a name
  Turned,    \* the messages a hand at the mixer amounts to
  MaxLosses, \* datagrams lost in a behaviour
  MaxTurns   \* movements of that hand

Reg == DOMAIN Blank

\* A dump never carries the playback matrix (ADR 0002).
Reestablished == {r \in Reg : r[1] = "mix" /\ r[3] = "playback"}
Reported      == Reg \ Reestablished

ASSUME ReadsConstants ==
  /\ Bursts \in Seq(SUBSET Reported)
  /\ UNION {Bursts[i] : i \in DOMAIN Bursts} = Reported
  /\ Pinned \subseteq Settable /\ Settable \subseteq Reported
  /\ DOMAIN Names \subseteq Settable
  /\ IsFiniteSet(Settable) /\ \A r \in Settable : r[1] # "mix" /\ r[3] # "stereo"
  /\ {m.reg : m \in Turned} \subseteq Reported
  /\ MaxLosses \in Nat /\ MaxTurns \in Nat

VARIABLES
  dev,      \* what the device holds
  config,   \* the routing.conf in place
  command,  \* what runs, or ran last: "dump", "diff", "apply"
  phase,    \* "ready" for a command, or "reading"
  seen,     \* what the command has heard, register -> arguments
  coming,   \* the bursts of the dump that are still to come
  code,     \* its exit code
  dumped,   \* the file --dump-config printed
  listed,   \* the writes --diff listed
  losses, turns,
  moved,    \* history: the registers a hand has moved since it asked
  whole,    \* history: nothing of the dump it asked for was lost
  faithful, \* history: config is a whole dump, and no hand moved since
  plain     \* history: of a desk all of which a file can say

vars == <<dev, config, command, phase, seen, coming, code, dumped, listed,
          losses, turns, moved, whole, faithful, plain>>

OK      == 0
FAILURE == 1
CONFIG  == 2
DIFFERS == 3

NothingHeard == [r \in {} |-> <<>>]
EmptyFile    == [routes |-> <<>>, channels |-> <<>>]

LevelMin == -65
LevelMax == 6
Silence  == -1000     \* -inf, as a muted cell is reported

\* A link is on or off, a cell has a level and a pan.
Holds(r, args) ==
  /\ args \in Seq(Int)
  /\ r[1] = "mix" => Len(args) = 2 /\ args[1] <= LevelMax
  /\ r[1] # "mix" /\ r[3] = "stereo" => args \in {<<0>>, <<1>>}

IsReading(holds) == \A r \in DOMAIN holds : Holds(r, holds[r])

\* Two channels to two, or one to one.
Routes ==
  [kind : {"input", "playback"}, source : Seq(Nat), output : Seq(Nat), level : Int,
   volume : Int \union {NoVolume}, stereo : BOOLEAN]

IsFile(file) ==
  /\ file.routes \in Seq(Routes)
  /\ \A i \in DOMAIN file.routes :
       LET r == file.routes[i] IN
       Len(r.output) \in {1, 2} /\ Len(r.source) = Len(r.output) /\ r.level <= LevelMax
  /\ file.channels \in Seq([reg : Settable, args : Seq(Int)])

----------------------------------------------------------------------------
(* The device: external, as the code above it relies on.                   *)

Odd(ch) == IF ch % 2 = 1 THEN ch ELSE ch - 1
Linked(holds, kind, ch) ==
  LET r == Stereo(kind, Odd(ch)) IN r \in DOMAIN holds /\ holds[r] = <<1>>

Before(r, q) == r[2] < q[2] \/ (r[2] = q[2] /\ r[4] < q[4])

\* Outputs come in pairs that can be linked, and the cells of the matrix are
\* walked output by output (reconcile.py:630, sorted).
ASSUME ReadsMatrix ==
  /\ Matrix \in Seq(Reg)
  /\ {Matrix[i] : i \in DOMAIN Matrix} = {r \in Reg : r[1] = "mix" /\ r[3] = "input"}
  /\ \A i, j \in DOMAIN Matrix : i < j => Before(Matrix[i], Matrix[j])
  /\ \A i \in DOMAIN Matrix :
       LET r == Matrix[i] IN
       /\ {r[2], r[4]} \subseteq Nat \ {0} /\ r = Cell(r[2], "input", r[4])
       /\ Stereo("output", Odd(r[2])) \in Reg
       /\ Kinds["output"] # {} => {Odd(r[2]), Odd(r[2]) + 1} \subseteq Kinds["output"]
       /\ Kinds["input"] # {} => r[4] \in Kinds["input"]

\* A write as the device keeps it: -65 dB is stored as no signal at all,
\* and a cell of a linked pair is the cell of its odd channel.
Stored(holds, m) ==
  LET Fold(kind, ch) == IF Linked(holds, kind, ch) THEN Odd(ch) ELSE ch
  IN  IF m.reg[1] # "mix" THEN [holds EXCEPT ![m.reg] = m.args]
      ELSE [holds EXCEPT ![Cell(Fold("output", m.reg[2]), m.reg[3], Fold(m.reg[3], m.reg[4]))]
              = IF m.args[1] <= LevelMin THEN <<Silence, 0>> ELSE m.args]

\* An apply that keeps its barrier: the links are in force before the mix.
AppliedTo(holds, file) == FoldLeft(Stored, holds, Desired(file))

----------------------------------------------------------------------------
(* plan: what an apply would have to write, for the reason it gives.       *)

\* A wanted level of -65 and a reported one of -inf are the same; of an
\* enum the name is not compared.
Matches(want, got) ==
  want = got \/ (want[1] <= LevelMin /\ got[1] = Silence)

\* bug: a register nobody has reported counts as confirmed.
DiffersWhenSeen(m, heard) ==
  /\ m.reg \notin Reestablished
  /\ m.reg \in DOMAIN heard /\ ~Matches(m.args, heard[m.reg])

\* Missing or mismatched; a rewrite is not a difference.
Differs(m, heard) ==
  /\ m.reg \notin Reestablished
  /\ m.reg \notin DOMAIN heard \/ ~Matches(m.args, heard[m.reg])

Differing(file, heard) == {m \in ToSet(Desired(file)) : Differs(m, heard)}

----------------------------------------------------------------------------
(* The dump as a file.                                                     *)

\* Every reported cell of the input matrix that is not muted.
MixEntries(heard) ==
  {r \in DOMAIN heard : r[1] = "mix" /\ r[3] = "input" /\ heard[r][1] > LevelMin}

Route(source, output, level, stereo) ==
  [kind |-> "input", source |-> source, output |-> output, level |-> level,
   volume |-> NoVolume, stereo |-> stereo]

\* bug: the 6 dB of an unlinked pair stay in the level.
RouteWithOffsetLeft(heard, r) ==
  LET out == r[2]  src == r[4]  level == heard[r][1]  pan == heard[r][2]
      split == pan \in {-100, 100} /\ Cell(out + 1, "input", src) \in MixEntries(heard)
  IN  IF Linked(heard, "output", out)
      THEN IF out % 2 = 1 THEN <<Route(<<src, src + 1>>, <<out, out + 1>>, level, TRUE)>> ELSE <<>>
      ELSE IF split THEN <<Route(<<src, src + 1>>, <<out, out + 1>>, level, FALSE)>>
      ELSE IF pan = 0 THEN <<Route(<<src>>, <<out>>, level, TRUE)>> ELSE <<>>

\* bug: of an unlinked pair, only the left source is named.
RouteWithLeftSource(heard, r) ==
  LET out == r[2]  src == r[4]  level == heard[r][1]  pan == heard[r][2]
      split == pan \in {-100, 100} /\ Cell(out + 1, "input", src) \in MixEntries(heard)
  IN  IF Linked(heard, "output", out)
      THEN IF out % 2 = 1 THEN <<Route(<<src, src + 1>>, <<out, out + 1>>, level, TRUE)>> ELSE <<>>
      ELSE IF split THEN <<Route(<<src>>, <<out, out + 1>>, level - UnlinkedGainOffset, FALSE)>>
      ELSE IF pan = 0 THEN <<Route(<<src>>, <<out>>, level, TRUE)>> ELSE <<>>

\* The route a cell stands for: the odd cell of a linked pair is a pair
\* route, two cells of one source panned hard are an unlinked one, a centred
\* cell is a mono one.  Anything else is not in the file.
RouteAt(heard, r) ==
  LET out == r[2]  src == r[4]  level == heard[r][1]  pan == heard[r][2]
      pair(raised, stereo) == <<Route(<<src, src + 1>>, <<out, out + 1>>, level - raised, stereo)>>
      split == pan \in {-100, 100} /\ Cell(out + 1, "input", src) \in MixEntries(heard)
  IN  IF Linked(heard, "output", out) THEN IF out % 2 = 1 THEN pair(0, TRUE) ELSE <<>>
      ELSE IF split THEN pair(UnlinkedGainOffset, FALSE)
      ELSE IF pan = 0 THEN <<Route(<<src>>, <<out>>, level, TRUE)>> ELSE <<>>

\* An unlinked pair takes the cell of its right side along.
Walk(heard, done, r) ==
  IF r \notin MixEntries(heard) \/ r \in done.claimed THEN done
  ELSE LET found == RouteAt(heard, r) IN
       [routes  |-> done.routes \o found,
        claimed |-> IF found # <<>> /\ ~found[1].stereo
                    THEN done.claimed \union {Cell(r[2] + 1, "input", r[4])}
                    ELSE done.claimed]

\* The cells are walked output by output.
RoutesFromObserved(heard) ==
  FoldLeft(LAMBDA done, r : Walk(heard, done, r), [routes |-> <<>>, claimed |-> {}], Matrix).routes

\* The value of an enum without a name for it cannot be written down.
Nameable(r, args) == r \in DOMAIN Names => args \in Names[r]

\* bug: what has no name is written as the number it is.
LiveWithNumbers(heard) == {r \in Settable \intersect DOMAIN heard : r \in Pinned}

\* What the model pins is a line of the file, what it remembers a comment.
Live(heard) ==
  {r \in Settable \intersect DOMAIN heard : r \in Pinned /\ Nameable(r, heard[r])}

DumpOf(heard) ==
  [routes   |-> RoutesFromObserved(heard),
   channels |-> SetToSeq({Message(r, heard[r]) : r \in Live(heard)})]

\* load_config, as far as a dump can offend it.
Loads(file) ==
  /\ \A r \in ToSet(file.routes) : r.level \in LevelMin .. LevelMax
  /\ ChannelsExist(file.routes, [channels |-> Kinds])
  /\ LinksAgree(file.routes)
  /\ \A m \in ToSet(file.channels) : Nameable(m.reg, m.args)

\* The files a desk is built from load, and neither they nor a hand write what
\* a register cannot hold.
ASSUME ReadsValues ==
  /\ Blank \in [Reg -> Seq(Int)] /\ IsReading(Blank)
  /\ \A file \in Configs : IsFile(file) /\ Loads(file)
  /\ \A m \in Turned : Holds(m.reg, m.args)

----------------------------------------------------------------------------
(* _read_device: listen, ask, and take what comes until it goes quiet.     *)

Init ==
  /\ config \in Configs
  /\ dev = AppliedTo(Blank, config)
  /\ command = "apply" /\ phase = "ready"
  /\ seen = NothingHeard /\ coming = <<>>
  /\ code = OK /\ dumped = EmptyFile /\ listed = {}
  /\ losses = 0 /\ turns = 0
  /\ moved = {} /\ whole = FALSE /\ faithful = FALSE /\ plain = FALSE

Exits(how) == phase' = "ready" /\ code' = how

\* The file does not load, or the mixer GUI holds the port; else the
\* request goes out, to a backend or to nobody.
Invoke(what) ==
  /\ phase = "ready"
  /\ command' = what
  /\ IF ~Loads(config)
     THEN Exits(CONFIG) /\ UNCHANGED <<seen, coming, moved, whole>>
     ELSE \/ Exits(FAILURE) /\ UNCHANGED <<seen, coming, moved, whole>>
          \/ /\ phase' = "reading" /\ UNCHANGED code
             /\ seen' = NothingHeard /\ moved' = {}
             /\ \/ coming' = Bursts /\ whole' = TRUE
                \/ coming' = <<>> /\ whole' = FALSE
  /\ UNCHANGED <<dev, config, dumped, listed, losses, turns, faithful, plain>>

\* The first report of a register is the one that is kept.
AlsoHeard(reported, holds) ==
  [r \in DOMAIN seen \union reported |-> IF r \in DOMAIN seen THEN seen[r] ELSE holds[r]]

Hear ==
  /\ phase = "reading" /\ coming # <<>>
  /\ \E gone \in {{}} \union {{r} : r \in Head(coming)} :
       /\ losses + Cardinality(gone) <= MaxLosses
       /\ losses' = losses + Cardinality(gone)
       /\ seen' = AlsoHeard(Head(coming) \ gone, dev)
       /\ whole' = (whole /\ gone = {})
  /\ coming' = Tail(coming)
  /\ UNCHANGED <<dev, config, command, phase, code, dumped, listed, turns, moved,
                 faithful, plain>>

\* Nothing new for DUMP_QUIET_SECONDS, or the window is over: of a dump that
\* pauses, the rest is not waited for.
Quiet ==
  /\ phase = "reading"
  /\ coming # <<>> => losses < MaxLosses
  /\ losses' = IF coming = <<>> THEN losses ELSE losses + 1
  /\ whole' = (whole /\ coming = <<>>)
  /\ coming' = <<>>
  /\ IF seen = NothingHeard THEN Exits(FAILURE) /\ UNCHANGED <<dumped, listed>>
     ELSE IF command = "dump"
     THEN dumped' = DumpOf(seen) /\ Exits(OK) /\ UNCHANGED listed
     ELSE /\ listed' = Differing(config, seen) /\ UNCHANGED dumped
          /\ Exits(IF listed' = {} THEN OK ELSE DIFFERS)
  /\ UNCHANGED <<dev, config, command, seen, turns, moved, faithful, plain>>

----------------------------------------------------------------------------
(* The desks a file can describe.                                          *)

\* What a cell of the matrix is, if a route has made it: the half of a linked
\* pair that is not in use, a mono route, or one side of a pair of inputs --
\* in balance to a linked pair of outputs, or hard to its own side with its
\* counterpart on the other.
NotInUse(holds, r) == Linked(holds, "output", r[2]) /\ r[2] % 2 = 0

MonoRoute(holds, r) ==
  /\ ~Linked(holds, "output", r[2]) /\ holds[r][2] = 0
  /\ Linked(holds, "input", r[4]) => r[4] % 2 = 1

PairRoute(holds, r) ==
  LET level == holds[r][1]  pan == holds[r][2]  left == r[2] % 2 = 1
      twin == Cell(IF left THEN r[2] + 1 ELSE r[2] - 1, "input", r[4])
  IN  /\ r[4] % 2 = 1 /\ Linked(holds, "input", r[4])
      /\ IF Linked(holds, "output", r[2]) THEN pan = 0
         ELSE /\ pan = IF left THEN -100 ELSE 100
              /\ twin \in DOMAIN holds /\ holds[twin] = <<level, -pan>>

Plain(holds) ==
  \A r \in MixEntries(holds) :
    NotInUse(holds, r) \/ MonoRoute(holds, r) \/ PairRoute(holds, r)

----------------------------------------------------------------------------
(* The person at the desk.                                                 *)

\* A dumped file becomes the routing.conf.
Adopt ==
  /\ phase = "ready" /\ command = "dump" /\ code = OK
  /\ config' = dumped
  /\ faithful' = (whole /\ moved = {}) /\ plain' = Plain(dev)
  /\ UNCHANGED <<dev, command, phase, seen, coming, code, dumped, listed,
                 losses, turns, moved, whole>>

\* A session starts, and applies what is in place.
Apply ==
  /\ phase = "ready" /\ Loads(config)
  /\ dev' = AppliedTo(dev, config) /\ command' = "apply" /\ code' = OK
  /\ UNCHANGED <<config, phase, seen, coming, dumped, listed, losses, turns,
                 moved, whole, faithful, plain>>

\* A knob is turned; the device reports a link that changes at once.
Turn ==
  /\ turns < MaxTurns
  /\ \E m \in Turned :
       /\ dev[m.reg] # m.args
       /\ dev' = [r \in Reg |-> IF r = m.reg THEN m.args ELSE dev[r]]
       /\ moved' = moved \union {m.reg}
       /\ seen' = IF phase = "reading" /\ m.reg[3] = "stereo"
                  THEN AlsoHeard({m.reg}, dev') ELSE seen
  /\ turns' = turns + 1 /\ faithful' = FALSE
  /\ UNCHANGED <<config, command, phase, coming, code, dumped, listed, losses, whole,
                 plain>>

Next == Invoke("dump") \/ Invoke("diff") \/ Hear \/ Quiet \/ Adopt \/ Apply \/ Turn

Spec == Init /\ [][Next]_vars

----------------------------------------------------------------------------

(* The device holds, and a command has heard, what its registers can hold; *)
(* a file that was printed is one, routes nothing that is muted, and of the *)
(* playback matrix nothing is ever listed (reconcile.render_config, plan). *)
ReadsTypeOK ==
  /\ DOMAIN dev = Reg /\ IsReading(dev)
  /\ DOMAIN seen \subseteq Reported /\ IsReading(seen)
  /\ phase \in {"ready", "reading"} /\ command \in {"dump", "diff", "apply"}
  /\ code \in {OK, FAILURE, CONFIG, DIFFERS}
  /\ losses \in 0 .. MaxLosses /\ turns \in 0 .. MaxTurns
  /\ IsFile(config) /\ IsFile(dumped)
  /\ \A r \in ToSet(dumped.routes) : r.level > LevelMin - UnlinkedGainOffset
  /\ \A m \in listed : m.reg \notin Reestablished

\* The read that has just ended speaks of the desk the file in place was
\* dumped from: nothing was lost of it or of the dump, and nobody has turned
\* anything in between.
SameDeskReadAgain == phase = "ready" /\ faithful /\ whole /\ moved = {}

\* The file says what the device holds.
Agrees ==
  /\ command = "diff" => code # DIFFERS
  /\ command = "dump" /\ code = OK => dumped = config

(* The round trip is a fixed point: a file dumped from a desk whose cells  *)
(* are all those of routes shows no difference to it, and is dumped again  *)
(* word for word, before and after it is applied (tests/test_dump_config.py*)
(* checks it for single routes).                                           *)
DumpDescribesDesk == SameDeskReadAgain /\ plain => Agrees

\* The device is not as the message says, in a register it can report.
Drifted(m) == m.reg \in Reported /\ ~Matches(m.args, dev[m.reg])

(* --diff answers for the device, not for what arrived: 0 means every      *)
(* register of the config that can be read is as the config says, 3 of a   *)
(* complete read that one is not, or that the device does not have it --   *)
(* but for what a hand has moved since the request.                        *)
DiffTellsDrift ==
  phase = "ready" /\ command = "diff" =>
    /\ code = OK => \A m \in ToSet(Desired(config)) : Drifted(m) => m.reg \in moved
    /\ code = DIFFERS /\ whole =>
         \E m \in listed : Drifted(m) \/ m.reg \in moved \/ m.reg \notin Reg

\* A cell that is dumped as that of a pair, although its input has no
\* neighbour, or although it is below what the two cells of a pair can be.
Panned(holds, r) == ~Linked(holds, "output", r[2]) /\ holds[r][2] # 0
Lonely(holds, r) ==
  /\ Linked(holds, "output", r[2]) \/ Panned(holds, r)
  /\ Kinds["input"] # {} /\ r[4] + 1 \notin Kinds["input"]
Faint(holds, r) == Panned(holds, r) /\ holds[r][1] < LevelMin + UnlinkedGainOffset

(* A dump of a working device is a file that loads, whatever of the dump   *)
(* was lost, cut off or changed under it (reconcile._unnameable), but for  *)
(* the last input in a pair and a pair that is all but silent.             *)
WorkingDeviceLoads ==
  code = CONFIG => \E r \in MixEntries(seen) : Lonely(seen, r) \/ Faint(seen, r)

(* --dump-config prints "the desk you have, as the file that reproduces    *)
(* it" (README.md:26), whatever the routes of the desk are.                *)
DumpDescribesAnyDesk == SameDeskReadAgain => Agrees

(* "A dump of a working device that refuses to be a config" is what the    *)
(* round trip is there to rule out (reconcile._unnameable).                *)
AnyDumpLoads == code # CONFIG

=============================================================================
