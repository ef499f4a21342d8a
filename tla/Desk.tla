-------------------------------- MODULE Desk --------------------------------
(***************************************************************************)
(* The audio interface, the oscmix backend in front of it and the UDP port *)
(* the backend reports to: everything the session talks to and does not    *)
(* control.  None of it is code of this repository; it is modelled from    *)
(* the facts the session's code is built on (backend.Traits, ADR 0001,     *)
(* 0002, 0012 and docs/OSC-PROTOCOL.md):                                   *)
(*   - oscmix keeps a copy of the output links (view) that changes only    *)
(*     when the device reports the register, never on a write;             *)
(*   - a mix write against a linked view folds onto the pair, against an   *)
(*     unlinked view it reaches the addressed output only;                 *)
(*   - the device reports a link when it changes, everything else only in  *)
(*     a dump, and the playback mix not even there;                        *)
(*   - a report goes to whoever holds the receive port, or is lost.        *)
(***************************************************************************)
EXTENDS Readback, FiniteSets

CONSTANTS
  Reg,         \* the registers of the device the model looks at
  Values,      \* the argument tuples of their messages and reports
  InitialDevs, \* the device states a session may find
  DumpOrder,   \* the registers of a dump, in the order they arrive
  FaderValues, \* the values a hand may leave a fader at
  HandRegs,    \* the registers a hand may turn
  MaxDrops,    \* how many datagrams may be lost in a behaviour
  MaxTurns     \* how many times a hand may turn something

Thread == {"main", "verify"}

Off    == <<>>                    \* a mix cell nothing was ever routed to

OddOf(out) == IF out % 2 = 1 THEN out ELSE out - 1
LinkRegs   == {r \in Reg : r[1] = "output" /\ r[3] = "stereo"}

ASSUME DeskConstants ==
  /\ InitialDevs \subseteq [Reg -> Values]
  /\ DumpOrder \in Seq(Reg)
  /\ FaderValues \subseteq Values /\ HandRegs \subseteq Reg
  /\ {Off, <<0>>, <<1>>} \subseteq Values
  /\ MaxDrops \in Nat /\ MaxTurns \in Nat

VARIABLES
  dev,     \* the registers of the device
  view,    \* oscmix's own copy of the output links
  wire,    \* reports on their way from the device to oscmix, in order
  dump,    \* the registers the running dump has still to report
  child,   \* the backend process
  port,    \* who holds the receive port
  inbox,   \* the reports waiting at the port a thread holds
  drops,   \* datagrams lost so far
  turns    \* hand movements so far

deskVars == <<dev, view, wire, dump, child, port, inbox, drops, turns>>

Report == [reg : Reg, args : Values]

DeskTypeOK ==
  /\ dev \in [Reg -> Values]
  /\ view \in [LinkRegs -> Values]
  /\ wire \in Seq(Report) /\ inbox \in Seq(Report) /\ dump \in Seq(Reg)
  /\ child \in {"starting", "up", "dead"}
  /\ port \in {"free", "gui"} \union Thread
  /\ drops \in 0 .. MaxDrops
  /\ turns \in 0 .. MaxTurns

DeskInit ==
  /\ dev \in InitialDevs
  /\ view = [r \in LinkRegs |-> <<0>>]
  /\ wire = <<>> /\ dump = <<>> /\ inbox = <<>>
  /\ child = "starting"
  /\ port \in {"free", "gui"}
  /\ drops = 0 /\ turns = 0

----------------------------------------------------------------------------
(* What a datagram does when it reaches oscmix.                            *)

Linked(out) == view[Stereo("output", OddOf(out))] = <<1>>

\* The device after a message: a mix write is folded by the current view.
Written(m) ==
  LET r == m.reg  level == <<m.args[1]>>  IN
  IF r[1] # "mix" THEN [dev EXCEPT ![r] = m.args]
  ELSE IF ~Linked(r[2]) THEN [dev EXCEPT ![r] = level]
  ELSE LET odd == OddOf(r[2])  pan == m.args[2]
       IN [dev EXCEPT ![Cell(odd, r[3], r[4])]     = IF pan = 100 THEN Off ELSE level,
                      ![Cell(odd + 1, r[3], r[4])] = IF pan = -100 THEN Off ELSE level]

\* The device echoes an output link that changed, and nothing else.
Echoed(m) ==
  IF m.reg \in LinkRegs /\ dev[m.reg] # m.args THEN Append(wire, m) ELSE wire

MayLose(lost) ==
  /\ lost => drops < MaxDrops
  /\ drops' = IF lost THEN drops + 1 ELSE drops

\* A register message is put on the loopback; nothing hears it when oscmix
\* is not there yet or no longer.
PutRegister(m) ==
  \E lost \in BOOLEAN :
    /\ MayLose(lost)
    /\ IF lost \/ child # "up" THEN UNCHANGED <<dev, wire>>
       ELSE dev' = Written(m) /\ wire' = Echoed(m)
    /\ UNCHANGED <<view, dump, child, turns>>

\* /refresh: the device starts to stream its registers.
PutRefresh ==
  \E lost \in BOOLEAN :
    /\ MayLose(lost)
    /\ dump' = IF lost \/ child # "up" THEN dump ELSE DumpOrder
    /\ UNCHANGED <<dev, view, wire, child, turns>>

----------------------------------------------------------------------------
(* Steps of the device, the backend, the mixer GUI and a hand.             *)

\* The device reports the next register of the dump.
DumpNext ==
  /\ dump # <<>> /\ wire = <<>>
  /\ wire' = <<Message(Head(dump), dev[Head(dump)])>>
  /\ dump' = Tail(dump)
  /\ UNCHANGED <<dev, view, child, port, inbox, drops, turns>>

\* oscmix takes a report: it learns the link, and passes the report on to
\* the holder of the receive port.
Deliver ==
  /\ wire # <<>>
  /\ LET m == Head(wire) IN
     \E lost \in BOOLEAN :
       /\ MayLose(lost)
       /\ view' = IF m.reg \in LinkRegs THEN [view EXCEPT ![m.reg] = m.args] ELSE view
       /\ inbox' = IF port \in Thread /\ ~lost THEN Append(inbox, m) ELSE inbox
  /\ wire' = Tail(wire)
  /\ UNCHANGED <<dev, dump, child, port, turns>>

BackendBinds ==
  /\ child = "starting"
  /\ child' = "up"
  /\ UNCHANGED <<dev, view, wire, dump, port, inbox, drops, turns>>

\* The backend crashes, obeys SIGTERM, or goes with its device.
BackendDies ==
  /\ child # "dead"
  /\ child' = "dead" /\ wire' = <<>> /\ dump' = <<>>
  /\ UNCHANGED <<dev, view, port, inbox, drops, turns>>

GuiOpens ==
  /\ port = "free"
  /\ port' = "gui"
  /\ UNCHANGED <<dev, view, wire, dump, child, inbox, drops, turns>>

GuiCloses ==
  /\ port = "gui"
  /\ port' = "free"
  /\ UNCHANGED <<dev, view, wire, dump, child, inbox, drops, turns>>

\* Somebody turns a fader at the device or in TotalMix.
HandTurns(r) ==
  /\ turns < MaxTurns
  /\ \E v \in FaderValues :
       /\ dev[r] # v
       /\ dev' = [dev EXCEPT ![r] = v]
       /\ wire' = Echoed(Message(r, v))
  /\ turns' = turns + 1
  /\ UNCHANGED <<view, dump, child, port, inbox, drops>>

=============================================================================
